---------------------------- MODULE Spec2Model ----------------------------
(***************************************************************************)
(* Model of ImageSniffer's per-frame characterization code:                *)
(*   bins.py        LogBins     (1-D logarithmic histogram)                *)
(*   octant.py      Octant      (sign partition, first-octant histogram)   *)
(*   registers.py   Registers   (counters and latches)                     *)
(*   frame_c18n.py  FrameC18n   (overall registers + octants)              *)
(*                                                                         *)
(* Numbers.  The code only ever compares samples, negates them, and takes  *)
(* log10 / 10** of positive ones.  A sample is a record [sgn, lg, ulps,    *)
(* dev] standing for the double                                            *)
(*      sgn * 10 ** (lg / LogRes)       (sgn = 0: the number zero)         *)
(* i.e. numbers on a logarithmic grid of LogRes points per decade.  LogRes *)
(* is a multiple of every bin count of the model, so that every bin        *)
(* boundary of every LogBins configuration is a grid point, and there are  *)
(* grid points strictly between two boundaries.  Beside the grid points a  *)
(* sample can be one of the first doubles above a power of ten (field      *)
(* ulps), or the power of an exponent a few doubles off the grid point, as *)
(* bin_bounds returns it (field dev).  math.log10 of a sample and the      *)
(* arithmetic of lerp are those of IEEE doubles: a double is a record      *)
(* [n, d, t], the rational n / d and the rounding error t (see Round).     *)
(***************************************************************************)
EXTENDS Integers, Sequences, FiniteSets, TLC

\* ---------------------------------------------------------------- bounds
MaxNumBins == 3      \* largest num_bins passed to LogBins
ExpSpan == 1         \* octant exponents -ExpSpan..ExpSpan, LogBins one beyond
MaxCalls == 2        \* add_entry calls per LogBins instance
MaxPixels == 2       \* pixels of an image
MaxFrameNumber == 3  \* frame numbers range over 0..MaxFrameNumber
MaxListLen == 4      \* longest list handed to _contiguous_ranges
MaxFrames == 2       \* frames of the sequences of a SequenceC18n

\* ------------------------------------------------------------- arithmetic
RECURSIVE GCD(_, _)
GCD(a, b) == IF b = 0 THEN a ELSE GCD(b, a % b)

RECURSIVE LCMUpTo(_)
LCMUpTo(k) == IF k <= 1 THEN 1 ELSE LET m == LCMUpTo(k - 1) IN (m * k) \div GCD(m, k)

\* grid points per decade
LogRes == 2 * LCMUpTo(MaxNumBins)

\* A double is a record [n, d, t] with d > 0 that stands for the number
\*      (n + t * 2 ** -Fine) / d
\* the rational n / d the exact arithmetic gives, and what the roundings of
\* the double arithmetic have moved it by; a double that is an integer i is
\* [n |-> i, d |-> 1, t |-> 0]
Fine == 64

\* the double of a Python int
float(i) == [n |-> i, d |-> 1, t |-> 0]

\* a == b and a < b for doubles
DblEq(a, b) == a.n * b.d = b.n * a.d /\ a.t * b.d = b.t * a.d

DblLt(a, b) ==
    \/ a.n * b.d < b.n * a.d
    \/ a.n * b.d = b.n * a.d /\ a.t * b.d < b.t * a.d

\* math.floor of a double
floor(r) ==
    IF r.n % r.d = 0 /\ r.t < 0 THEN (r.n \div r.d) - 1 ELSE r.n \div r.d

\* 2 ** e for e in 0..30
Pow2Table ==
    <<1, 2, 4, 8, 16, 32, 64, 128, 256, 512, 1024, 2048, 4096, 8192,
      16384, 32768, 65536, 131072, 262144, 524288, 1048576, 2097152,
      4194304, 8388608, 16777216, 33554432, 67108864, 134217728,
      268435456, 536870912, 1073741824>>

Pow2(e) == Pow2Table[e + 1]

\* 2 ** e modulo m for e in 0..60
Pow2Mod(e, m) ==
    ((Pow2(e \div 2) % m) * (Pow2(e - (e \div 2)) % m)) % m

\* floor(log2(a / d)) for integers a, d >= 1
RECURSIVE Binade(_, _)
Binade(a, d) ==
    IF a >= 2 * d THEN 1 + Binade(a, 2 * d)
    ELSE IF a < d THEN Binade(2 * a, d) - 1
    ELSE 0

\* the binary exponent of the doubles at a / d; of those below a / d when
\* "below" and a / d is a power of two
BinaryExponent(a, d, below) ==
    LET b == Binade(a, d)
    IN  IF below /\ (IF b >= 0 THEN a = d * Pow2(b) ELSE a * Pow2(-b) = d)
        THEN b - 1
        ELSE b

\* the whole number nearest to num / den, a tie going to the one that makes
\* odd + the number even
Nearest(num, den, odd) ==
    LET fl == num \div den
    IN  IF 2 * (num - fl * den) < den THEN fl
        ELSE IF 2 * (num - fl * den) > den THEN fl + 1
        ELSE IF (odd + fl) % 2 = 0 THEN fl
        ELSE fl + 1

\* the double nearest to s * (a + tau * 2 ** -Fine) / b, for a, b >= 1.  The
\* doubles there are the multiples of ulp; the rational a / b lies
\* (r2 % b) / b ulps above the multiple q of the ulp below it, and r2 \div b
\* is the parity of q
RoundUlps(s, a, b, tau, ulp, r2) ==
    [n |-> s * a, d |-> b,
     t |-> s * ulp * (Nearest((r2 % b) * ulp + tau, b * ulp, r2 \div b) * b
                        - (r2 % b))]

\* the same for the binary exponent e of the number: the ulp is
\* 2 ** (e - 52), and a / b is (a * 2 ** (52 - e)) / b ulps
RoundBinade(s, a, b, tau, e) ==
    RoundUlps(s, a, b, tau, Pow2(e - 52 + Fine),
              (a * Pow2Mod(52 - e, 2 * b)) % (2 * b))

\* the double nearest to (p + t * 2 ** -Fine) / d for d > 0, ties to the
\* even significand (IEEE 754 round to nearest even, the rounding of every
\* float operation of Python).  A whole number is a double, and a number
\* with p = 0 is one the model takes as a double.
Round(p, d, t) ==
    IF p = 0 THEN [n |-> 0, d |-> d, t |-> t]
    ELSE IF t = 0 /\ p % d = 0 THEN float(p \div d)
    ELSE IF p > 0
    THEN RoundBinade(1, p, d, t, BinaryExponent(p, d, t < 0))
    ELSE RoundBinade(-1, -p, d, -t, BinaryExponent(-p, d, t > 0))

\* the float operations of lerp on a double x and an int i:
\* x - i, i * x, x / i and i + x
Minus(x, i) == Round(x.n - i * x.d, x.d, x.t)
Times(i, x) == Round(i * x.n, x.d, i * x.t)
Over(x, i) == IF i < 0 THEN Round(-x.n, x.d * (-i), -x.t)
                       ELSE Round(x.n, x.d * i, x.t)
Plus(i, x) == IF i = 0 THEN x ELSE Round(x.n + i * x.d, x.d, x.t)

\* the double next above x (up) or next below x, for a double x # 0
Step(x, up) ==
    LET ulp == Pow2(BinaryExponent(
                        IF x.n < 0 THEN -x.n ELSE x.n, x.d,
                        IF (x.n > 0) = up
                        THEN (IF x.n < 0 THEN x.t > 0 ELSE x.t < 0)
                        ELSE (IF x.n < 0 THEN x.t >= 0 ELSE x.t <= 0))
                    - 52 + Fine)
    IN  [x EXCEPT !.t = @ + (IF up THEN x.d * ulp ELSE -(x.d * ulp))]

\* the double c places above x (below for c < 0)
RECURSIVE Shift(_, _)
Shift(x, c) ==
    IF c = 0 THEN x
    ELSE IF c > 0 THEN Shift(Step(x, TRUE), c - 1)
    ELSE Shift(Step(x, FALSE), c + 1)

\* the samples of the model.  For ulps = 0 a sample is the double
\*      sgn * 10 ** w
\* that Python computes for the double exponent w that lies dev places above
\* the double lg / LogRes (on it for dev = 0); for ulps > 0 it is a double a
\* few places further from zero than 10.0 ** (lg / LogRes) (see DoubleAbove
\* and NextAbove)
Pos(lg) == [sgn |-> 1, lg |-> lg, ulps |-> 0, dev |-> 0]
Neg(lg) == [sgn |-> -1, lg |-> lg, ulps |-> 0, dev |-> 0]
Zero == [sgn |-> 0, lg |-> 0, ulps |-> 0, dev |-> 0]

\* the smallest positive double whose math.log10 is above lg / LogRes; its
\* math.log10 is the double next above lg / LogRes
NextAbove(lg) == [sgn |-> 1, lg |-> lg, ulps |-> 2, dev |-> 0]

\* math.log10 of the double next above 10.0 ** k returns k itself: the
\* logarithm grows by 2 ** -52 / (m * ln 10) from 10.0 ** k to the next
\* double (m the significand of 10.0 ** k), which is less than half the gap
\* between k and the double next above k for every integer k from -6 to 6
\* but -1 and 0 (math.log10(10.000000000000002) == 1.0, while
\* math.log10(0.10000000000000002) == -0.9999999999999999)
Log10RoundsTo(k) == k # -1 /\ k # 0

\* the double next above 10.0 ** k for an integer k; for k = -1 and k = 0 it
\* is the smallest double whose math.log10 is above k
DoubleAbove(k) ==
    IF Log10RoundsTo(k)
    THEN [sgn |-> 1, lg |-> k * LogRes, ulps |-> 1, dev |-> 0]
    ELSE NextAbove(k * LogRes)

\* order of the doubles the samples stand for
ValLt(a, b) ==
    \/ a.sgn < b.sgn
    \/ a.sgn = 1 /\ b.sgn = 1
          /\ \/ a.lg < b.lg
             \/ a.lg = b.lg /\ a.dev < b.dev
             \/ a.lg = b.lg /\ a.dev = b.dev /\ a.ulps < b.ulps
    \/ a.sgn = -1 /\ b.sgn = -1
          /\ \/ a.lg > b.lg
             \/ a.lg = b.lg /\ a.dev > b.dev
             \/ a.lg = b.lg /\ a.dev = b.dev /\ a.ulps > b.ulps

\* math.log10(10 ** w) - w in places of doubles, for the exponent w that
\* lies dev places above the double q / 24: the power and the logarithm give
\* every exponent of the grids of 12 and of 24 points a decade back, and
\* every exponent value_for_ix returns for them, but the ones below (all
\* between -0.55 and 0.38, where the doubles of the exponent are closer
\* together than those of the power can tell apart)
Log10RoundTrip(q, dev) ==
    IF q < -13 \/ q > 9 \/ q = 0 THEN 0
    ELSE IF dev = 3 /\ q = 8 THEN -1
    ELSE IF dev # 0 THEN 0
    ELSE CASE q \in {-13, -5, 1, 5, 8} -> 1
           [] q = -3 -> 3
           [] q \in {-4, -1, 3, 4, 6, 9} -> -1
           [] q \in {-2, 2} -> -2
           [] OTHER -> 0

\* math.log10 of a positive sample.  For the double next above a power of
\* ten that the logarithm rounds onto the integer k (ulps = 1) it is k; for
\* NextAbove (ulps = 2) the double next above k, and for k = 0 the double
\* math.log10(1 + 2 ** -52) = 9.643274665402862e-17, which is 1779 to the
\* nearest 2 ** -Fine; for a sample 10 ** w it is w but for the exponents
\* of Log10RoundTrip
log10(value) ==
    LET k == value.lg \div LogRes
        w == Shift(Round(value.lg, LogRes, 0), value.dev)
    IN  IF value.ulps = 1 THEN float(k)
        ELSE IF value.ulps = 2
        THEN (IF k = 0 THEN [n |-> 0, d |-> 1, t |-> 1779]
                       ELSE Step(float(k), TRUE))
        ELSE IF value.lg = 0 THEN float(0)
        ELSE IF (24 * value.lg) % LogRes # 0 THEN w
        ELSE Shift(w, Log10RoundTrip((24 * value.lg) \div LogRes, value.dev))

\* the most places value_for_ix returns an exponent from the double of the
\* grid point
MaxDev == 4

\* 10 ** w for a double w that value_for_ix returns: the sample of the grid
\* point w.n / w.d and of the places w lies above its double; the exponents
\* 1/3 and the double next above it give the same power
\* (10 ** 0.3333333333333333 == 10 ** 0.33333333333333337)
Pow10(w) ==
    LET lg == (w.n * LogRes) \div w.d
        g == Round(lg, LogRes, 0)
        dev == IF DblEq(w, g) THEN 0
               ELSE IF DblEq(w, Step(g, TRUE)) THEN 1
               ELSE IF DblEq(w, Step(g, FALSE)) THEN -1
               ELSE CHOOSE c \in (-MaxDev)..MaxDev : DblEq(w, Shift(g, c))
    IN  IF w.n = 0 THEN Pos(0)
        ELSE IF 3 * lg = LogRes /\ dev = 1 THEN Pos(lg)
        ELSE [sgn |-> 1, lg |-> lg, ulps |-> 0, dev |-> dev]

\* 10 ** k for an integer k
TenTo(k) == Pos(k * LogRes)


\* ------------------------------------------------------------------ state
VARIABLES
    \* bins.py, one LogBins instance
    lbStatus,          \* "none" | "live" | "ctor_failed" (constructor raised)
    log_max,           \* self.log_max
    log_min,           \* self.log_min
    num_underflowed,   \* self.num_underflowed
    num_overflowed,    \* self.num_overflowed
    bins,              \* self._bins, a function on 0..len-1
    \* what the caller of the LogBins instance did and observed
    ctorArgs,          \* arguments of the constructor call
    calls,             \* add_entry calls made on the instance
    positiveCalls,     \* those of them made with a positive value
    lastOp,            \* "none" | "ctor" | "add_entry" | "bin_bounds"
    lastValue,         \* argument of the last call if it was add_entry
    lastIx,            \* argument of the last call if it was bin_bounds
    lastErr,           \* exception raised by the last call, "" if none
    lastRet,           \* bin index returned by the last add_entry, -1 for None
    lastBounds,        \* pair returned by the last bin_bounds, <<>> if it raised
    prev,              \* counters of the instance before the last call
    \* frame_c18n.py, one FrameC18n instance
    fcStatus,          \* "none" | "failed" (constructor raised) |
                       \* "constructed" | "tallied"
    file,              \* what the path holds: [state, pixels], state is
                       \* "ok" | "missing" | "unreadable"
    fc_num_bins,       \* num_bins handed to every Octant
    img_array,         \* the array read_image returned, after the last tally
    overall_registers, \* self._overall_registers
    overall_mask,      \* inclusion mask of the last overall tally
    octants,           \* self.octants: octant key -> Octant
    summary,           \* what the last call returned if it was summarize,
                       \* None otherwise
    pending,           \* the tallies of a tally in any order that have not
                       \* run yet: octant keys, <<>> for the overall one
    last_tally,        \* the tally that ran last in a tally in any order,
                       \* None before one is complete
    \* registers.py, one Registers instance used on its own
    rgStatus,          \* "none" | "constructed" | "tallied"
    rgRegisters,       \* its counters and latches
    rgImg,             \* img of the last tally
    rgMask,            \* inv_mask of the last tally
    rgHadBlack,        \* the black pixel counter held a count other than 0
                       \* before the last tally
    \* sequence_c18n.py, one SequenceC18n instance
    sqStatus,          \* "idle" | "characterizing" (inside the loop of
                       \* characterize_frames) | "characterized" | "raised"
                       \* (characterize_frames raised)
    columns,           \* the dictionary characterize_frames fills
    frames,            \* the frames characterized so far: channel names,
                       \* overall registers and octants of each
    dataframe,         \* self._dataframe, None or [index, columns]
    saved,             \* what the last call did if it was save: "written"
                       \* or the exception it raised; "" otherwise
    empty_is_error,    \* argument of the last save
    \* image_sequence.py, the last call of _contiguous_ranges
    frame_numbers,     \* its argument
    ranges             \* the list it returned, None before the call

lbVars == <<lbStatus, log_max, log_min, num_underflowed, num_overflowed, bins,
            ctorArgs, calls, positiveCalls, lastOp, lastValue, lastIx,
            lastErr, lastRet, lastBounds, prev>>

fcVars == <<fcStatus, file, fc_num_bins, img_array, overall_registers,
            overall_mask, octants, summary, pending, last_tally>>

rgVars == <<rgStatus, rgRegisters, rgImg, rgMask, rgHadBlack>>

sqVars == <<sqStatus, columns, frames, dataframe, saved, empty_is_error>>

isVars == <<frame_numbers, ranges>>

vars == <<lbVars, fcVars, rgVars, sqVars, isVars>>

\* ------------------------------------------------------------ bins.py
\* len(self._bins)
len(b) == Cardinality(DOMAIN b)

RECURSIVE SumTo(_, _)
SumTo(b, k) == IF k <= 0 THEN 0 ELSE b[k - 1] + SumTo(b, k - 1)

\* sum of all bin counts
SumBins(b) == SumTo(b, len(b))

\* np.zeros(num_bins, dtype=np.int)
zeros(num_bins) == [i \in 0..(num_bins - 1) |-> 0]

\* mutant: a constructor that also rejects an empty array
ZerosRaises_Validating(num_bins) == num_bins <= 0

\* np.zeros raises ValueError for a negative dimension
ZerosRaises(num_bins) == num_bins < 0

\* position a numpy array of length n gives to index ix (negative indices
\* count from the end), -1 when it raises IndexError
ArrayIndex(ix, n) ==
    IF 0 <= ix /\ ix < n THEN ix
    ELSE IF -n <= ix /\ ix < 0 THEN ix + n
    ELSE -1

\* lerp(x, min_domain, max_domain, min_range, max_range) for a double x and
\* integers: Python evaluates
\*   min_range + (max_range - min_range) * (x - min_domain)
\*                   / (max_domain - min_domain)
\* from the left, rounding the difference, the product, the quotient and the
\* sum to a double each (for an int x the difference and the product are
\* exact ints, and Round leaves them as they are)
lerp(x, min_domain, max_domain, min_range, max_range) ==
    Plus(min_range,
         Over(Times(max_range - min_range, Minus(x, min_domain)),
              max_domain - min_domain))

\* what the methods of a LogBins instance read of it: self.log_max,
\* self.log_min and len(self._bins)
Self == [log_max |-> log_max, log_min |-> log_min, num_bins |-> len(bins)]

\* mutant: an index on the end of the array is left as it is
clamp_Absent(self, lerped) == lerped

\* ix_for_value: "if lerped == len(self._bins): lerped -= 1"
clamp(self, lerped) ==
    IF DblEq(lerped, float(self.num_bins))
    THEN float(self.num_bins - 1)
    ELSE lerped

\* LogBins.ix_for_value
ix_for_value(self, value) ==
    clamp(self, lerp(value, self.log_max, self.log_min, 0, self.num_bins))

\* the branch of ix_for_value that subtracts one is taken
ClampTaken(self, value) ==
    DblEq(lerp(value, self.log_max, self.log_min, 0, self.num_bins),
          float(self.num_bins))

\* LogBins.value_for_ix
value_for_ix(self, ix) ==
    lerp(float(ix), 0, self.num_bins, self.log_max, self.log_min)

\* add_entry: "if log_value > self.log_max"
IsOverflow(self, log_value) == DblLt(float(self.log_max), log_value)

\* mutant: strict comparison, 10^log_min no longer underflows
IsUnderflow_Strict(self, log_value) == DblLt(log_value, float(self.log_min))

\* add_entry: "elif log_value <= self.log_min"
IsUnderflow(self, log_value) == ~DblLt(float(self.log_min), log_value)

\* mutant: only a negative argument is rejected
Log10Raises_NegativeOnly(value) == value.sgn < 0

\* math.log10 raises ValueError for zero and for negative numbers
Log10Raises(value) == value.sgn <= 0

Snapshot == [over |-> num_overflowed, under |-> num_underflowed, bins |-> bins]

\* LogBins.__init__(log_max, log_min, num_bins); given = FALSE: num_bins=None
LogBinsInit(lmax, lmin, given, nb) ==
    LET num_bins == IF given THEN nb ELSE lmax - lmin
    IN  /\ lbStatus = "none"
        /\ ctorArgs' = [log_max |-> lmax, log_min |-> lmin, given |-> given,
                        num_bins |-> IF given THEN nb ELSE 0]
        /\ lastOp' = "ctor"
        /\ prev' = Snapshot
        /\ IF ZerosRaises(num_bins)
           THEN /\ lbStatus' = "ctor_failed"
                /\ lastErr' = "ValueError"
                /\ UNCHANGED <<log_max, log_min, num_underflowed,
                               num_overflowed, bins>>
           ELSE /\ lbStatus' = "live"
                /\ lastErr' = ""
                /\ log_max' = lmax
                /\ log_min' = lmin
                /\ num_underflowed' = 0
                /\ num_overflowed' = 0
                /\ bins' = zeros(num_bins)
        /\ UNCHANGED <<calls, positiveCalls, lastValue, lastIx, lastRet,
                       lastBounds>>
        /\ UNCHANGED <<fcVars, rgVars, sqVars, isVars>>

\* mutant: assignment instead of increment
IncrementBin_Overwrite(b, at) == [b EXCEPT ![at] = 1]

\* "self._bins[ix] += 1" at array position at
IncrementBin(b, at) == [b EXCEPT ![at] = @ + 1]

\* what one call of LogBins.add_entry(value) does, by the branch it takes:
\* kind is the exception raised, or "overflow" / "underflow" / "bin"; ix is
\* the index computed (and returned when kind = "bin")
AddEntryOutcome(self, value) ==
    IF Log10Raises(value) THEN [kind |-> "ValueError", ix |-> -1]
    ELSE LET log_value == log10(value)
         IN  IF IsOverflow(self, log_value)
             THEN [kind |-> "overflow", ix |-> -1]
             ELSE IF IsUnderflow(self, log_value)
             THEN [kind |-> "underflow", ix |-> -1]
             ELSE IF self.log_max = self.log_min
             THEN [kind |-> "ZeroDivisionError", ix |-> -1]
             ELSE LET ix == floor(ix_for_value(self, log_value))
                  IN  IF ArrayIndex(ix, self.num_bins) = -1
                      THEN [kind |-> "IndexError", ix |-> ix]
                      ELSE [kind |-> "bin", ix |-> ix]

\* mutant: off-by-one upper limit
BinBoundsAssert_Inclusive(self, ix) == 0 <= ix /\ ix <= self.num_bins

\* bin_bounds: "assert 0 <= ix < len(self._bins)"
BinBoundsAssert(self, ix) == 0 <= ix /\ ix < self.num_bins

\* what LogBins.bin_bounds(ix) does for an integer ix: the exception it
\* raises ("" if none) and the pair it returns (<<>> if it raises)
BinBoundsOutcome(self, ix) ==
    IF ~BinBoundsAssert(self, ix)
    THEN [err |-> "AssertionError", bounds |-> <<>>]
    ELSE IF self.num_bins = 0
    THEN [err |-> "ZeroDivisionError", bounds |-> <<>>]
    ELSE LET lower_bound == Pow10(value_for_ix(self, ix))
             upper_bound == Pow10(value_for_ix(self, ix + 1))
         IN  [err |-> "", bounds |-> <<lower_bound, upper_bound>>]

\* log_max and log_min of a LogBins reach a decade beyond the exponents of
\* the octants, so that powers of ten other than 1 lie between them
Exponents == (-ExpSpan - 1)..(ExpSpan + 1)
ExpLo(self) == IF self.log_min < self.log_max THEN self.log_min ELSE self.log_max
ExpHi(self) == IF self.log_min < self.log_max THEN self.log_max ELSE self.log_min
LgLo(self) == ExpLo(self) * LogRes - LogRes \div 2
LgHi(self) == ExpHi(self) * LogRes + LogRes \div 2

\* distance of the grid points handed to add_entry: half the width of the
\* narrowest bin an instance of this many bins can have
GridStep(self) ==
    LogRes \div (2 * (IF self.num_bins = 0 THEN 1 ELSE self.num_bins))

\* values handed to add_entry: the positive grid points from half a decade
\* below the exponents of the instance to half a decade above (every bin
\* boundary and a point inside every bin among them); for every power of
\* ten from 10^ExpLo to 10^ExpHi the double next above it and the smallest
\* double with a larger math.log10; zero, and -1
AddValues(self) ==
    {Pos(e) : e \in {g \in LgLo(self)..LgHi(self) : g % GridStep(self) = 0}}
    \cup {DoubleAbove(k) : k \in ExpLo(self)..ExpHi(self)}
    \cup {NextAbove(k * LogRes) : k \in ExpLo(self)..ExpHi(self)}
    \cup {Zero, Neg(0)}

\* indices handed to bin_bounds
BoundsIndices == (-1)..(MaxNumBins + 1)

\* the instances the constructor makes: num_bins as given, or
\* log_max - log_min
Instances ==
    {[log_max |-> lmax, log_min |-> lmin, num_bins |-> nb] :
        lmax \in Exponents, lmin \in Exponents, nb \in 0..MaxNumBins}
    \cup {self \in {[log_max |-> lmax, log_min |-> lmin,
                      num_bins |-> lmax - lmin] :
                         lmax \in Exponents, lmin \in Exponents} :
                self.num_bins >= 0}

\* AddEntryOutcome and BinBoundsOutcome of every instance for the arguments
\* the model hands to it, computed once
AddEntryOutcomes ==
    [self \in Instances |->
        [value \in AddValues(self) |-> AddEntryOutcome(self, value)]]

BinBoundsOutcomes ==
    [self \in Instances |->
        [ix \in BoundsIndices |-> BinBoundsOutcome(self, ix)]]

\* LogBins.add_entry(value)
add_entry(value) ==
    LET out == AddEntryOutcomes[Self][value]
    IN  /\ lbStatus = "live"
        /\ calls < MaxCalls
        /\ calls' = calls + 1
        /\ positiveCalls' = IF value.sgn > 0 THEN positiveCalls + 1
                                             ELSE positiveCalls
        /\ lastOp' = "add_entry"
        /\ lastValue' = value
        /\ prev' = Snapshot
        /\ num_overflowed' = IF out.kind = "overflow" THEN num_overflowed + 1
                                                      ELSE num_overflowed
        /\ num_underflowed' = IF out.kind = "underflow" THEN num_underflowed + 1
                                                        ELSE num_underflowed
        /\ bins' = IF out.kind = "bin"
                   THEN IncrementBin(bins, ArrayIndex(out.ix, len(bins)))
                   ELSE bins
        /\ lastErr' = IF out.kind \in {"overflow", "underflow", "bin"} THEN ""
                                                                     ELSE out.kind
        /\ lastRet' = IF out.kind = "bin" THEN out.ix ELSE -1
        /\ lastIx' = 0
        /\ lastBounds' = <<>>
        /\ UNCHANGED <<lbStatus, log_max, log_min, ctorArgs>>
        /\ UNCHANGED <<fcVars, rgVars, sqVars, isVars>>

\* LogBins.bin_bounds(ix)
bin_bounds(ix) ==
    /\ lbStatus = "live"
    /\ lastOp' = "bin_bounds"
    /\ lastIx' = ix
    /\ prev' = Snapshot
    /\ LET out == BinBoundsOutcomes[Self][ix]
       IN  lastErr' = out.err /\ lastBounds' = out.bounds
    /\ lastValue' = Zero
    /\ lastRet' = -1
    /\ UNCHANGED <<lbStatus, log_max, log_min, num_underflowed, num_overflowed,
                   bins, ctorArgs, calls, positiveCalls>>
    /\ UNCHANGED <<fcVars, rgVars, sqVars, isVars>>

\* ------------------------------------------------------------ images
\* A pixel is a triple of samples (channel c of the code is component c + 1);
\* an image is the sequence of its pixels in row-major order, and a mask is a
\* sequence of booleans of the same length.

\* np.finfo(np.half).max = 65504 = 10^4.8163, on the grid
HalfMaxLg == (48163 * LogRes) \div 10000
PosClip == Pos(HalfMaxLg)
NegClip == Neg(HalfMaxLg)

\* v * -1
Negate(v) == [sgn |-> -v.sgn, lg |-> v.lg, ulps |-> v.ulps, dev |-> v.dev]

\* np.sum(mask): number of True entries
np_sum_As_Size(mask) == Len(mask)

RECURSIVE np_sum(_)
np_sum(mask) ==
    IF mask = <<>> THEN 0
    ELSE (IF Head(mask) THEN 1 ELSE 0) + np_sum(Tail(mask))

\* img[mask]: the pixels the mask selects, in order (a new array)
RECURSIVE Select(_, _)
Select(img, mask) ==
    IF img = <<>> THEN <<>>
    ELSE (IF Head(mask) THEN <<Head(img)>> ELSE <<>>)
             \o Select(Tail(img), Tail(mask))

\* np.full(img_array.shape[0:2], True)
np_full_True(img) == [i \in DOMAIN img |-> TRUE]

\* the values of a sequence of samples
Range(f) == {f[i] : i \in DOMAIN f}

\* --------------------------------------------------------- registers.py
\* None is the empty sequence, a value v is <<v>>
None == <<>>
Some(v) == <<v>>

\* mutant: np.any where the code has np.all
is_black_pixel_Any(pixel) == \E c \in 1..3 : pixel[c] = Zero

is_black_pixel(pixel) == \A c \in 1..3 : pixel[c] = Zero
is_negative_clip_component(component) == component = NegClip
is_zero_component(component) == component = Zero
is_positive_clip_component(component) == component = PosClip

\* mutant: ">=" where the code has ">"
strictly_negative_but_not_clipped_inverse_mask_WithClip(x) ==
    ~ValLt(x, NegClip) /\ ValLt(x, Zero)

strictly_negative_but_not_clipped_inverse_mask(x) ==
    ValLt(NegClip, x) /\ ValLt(x, Zero)

strictly_positive_but_not_clipped_inverse_mask(x) ==
    ValLt(Zero, x) /\ ValLt(x, PosClip)

\* the elementwise mask of an array of samples
NegativeMask(array) ==
    [i \in DOMAIN array |-> strictly_negative_but_not_clipped_inverse_mask(array[i])]

PositiveMask(array) ==
    [i \in DOMAIN array |-> strictly_positive_but_not_clipped_inverse_mask(array[i])]

\* np.any(array): some entry is not zero
np_any(array) == \E i \in DOMAIN array : array[i] # Zero

\* mutant: the first entry instead of the smallest
np_min_First(array) == array[1]

\* array.min() of a non-empty array, a reduction over its entries
RECURSIVE np_min(_)
np_min(array) ==
    IF Len(array) = 1 THEN array[1]
    ELSE LET m == np_min(Tail(array))
         IN  IF ValLt(m, Head(array)) THEN m ELSE Head(array)

\* array.max() of a non-empty array
RECURSIVE np_max(_)
np_max(array) ==
    IF Len(array) = 1 THEN array[1]
    ELSE LET m == np_max(Tail(array))
         IN  IF ValLt(Head(array), m) THEN m ELSE Head(array)

\* the four latch functions, on the array of one channel's samples; a
\* function that falls off its "if" returns None
biggest_strictly_negative_non_clipping_value(array) ==
    LET inverse_mask == NegativeMask(array)
    IN  IF np_any(Select(array, inverse_mask))
        THEN Some(np_min(Select(array, inverse_mask))) ELSE None

tiniest_strictly_negative_non_clipping_value(array) ==
    LET inverse_mask == NegativeMask(array)
    IN  IF np_any(Select(array, inverse_mask))
        THEN Some(np_max(Select(array, inverse_mask))) ELSE None

tiniest_strictly_positive_non_clipping_value(array) ==
    LET inverse_mask == PositiveMask(array)
    IN  IF np_any(Select(array, inverse_mask))
        THEN Some(np_min(Select(array, inverse_mask))) ELSE None

biggest_strictly_positive_non_clipping_value(array) ==
    LET inverse_mask == PositiveMask(array)
    IN  IF np_any(Select(array, inverse_mask))
        THEN Some(np_max(Select(array, inverse_mask))) ELSE None

\* mutant: every counter and latch reads channel 0
ChannelOf_Zeroth(pixels, channel) == [i \in DOMAIN pixels |-> pixels[i][1]]

\* img[inv_mask][..., channel]
ChannelOf(pixels, channel) == [i \in DOMAIN pixels |-> pixels[i][channel + 1]]

\* len(np.argwhere(pred(...))): how many entries satisfy the predicate
CountBlack(pixels) == Cardinality({i \in DOMAIN pixels : is_black_pixel(pixels[i])})
CountNegClip(a) == Cardinality({i \in DOMAIN a : is_negative_clip_component(a[i])})
CountZero(a) == Cardinality({i \in DOMAIN a : is_zero_component(a[i])})
CountPosClip(a) == Cardinality({i \in DOMAIN a : is_positive_clip_component(a[i])})

ChannelIndices == 0..2

\* the labels of the channel counters and of the latches
CounterLabels == {"nclp", "zero", "pclp"}
LatchLabels == {"nbig", "ntin", "ptin", "pbig"}

\* Counter._pred of a channel counter, counted over an array of samples
CountPred(label, a) ==
    CASE label = "nclp" -> CountNegClip(a)
      [] label = "zero" -> CountZero(a)
      [] label = "pclp" -> CountPosClip(a)

\* Latch._func
LatchFunc(label, array) ==
    CASE label = "nbig" -> biggest_strictly_negative_non_clipping_value(array)
      [] label = "ntin" -> tiniest_strictly_negative_non_clipping_value(array)
      [] label = "ptin" -> tiniest_strictly_positive_non_clipping_value(array)
      [] label = "pbig" -> biggest_strictly_positive_non_clipping_value(array)

\* Registers.__init__: counters hold None, latches hold 0, nothing examined
NewLatch == [values_examined_count |-> 0, latched_value |-> Some(Zero)]

NewRegisters ==
    [blk  |-> None,
     nclp |-> [c \in ChannelIndices |-> None],
     zero |-> [c \in ChannelIndices |-> None],
     pclp |-> [c \in ChannelIndices |-> None],
     nbig |-> [c \in ChannelIndices |-> NewLatch],
     ntin |-> [c \in ChannelIndices |-> NewLatch],
     ptin |-> [c \in ChannelIndices |-> NewLatch],
     pbig |-> [c \in ChannelIndices |-> NewLatch]]

\* mutant: the new count is added to the count held
Counter_tally_pixels_Summing(count, img, inv_mask) ==
    Some((IF count = None THEN 0 ELSE count[1]) + CountBlack(Select(img, inv_mask)))

\* Counter.tally_pixels: self.count is assigned, whatever it held
Counter_tally_pixels(count, img, inv_mask) ==
    Some(CountBlack(Select(img, inv_mask)))

\* Counter.tally_channel_values: self.count is assigned, whatever it held
Counter_tally_channel_values(count, label, channel, img, inv_mask) ==
    Some(CountPred(label, ChannelOf(Select(img, inv_mask), channel)))

\* Latch.latch_max_channel_value, after Registers.tally has set
\* values_examined_count: latched_value is assigned, whatever it held
Latch_latch_max_channel_value(latch, label, channel, img, inv_mask) ==
    [values_examined_count |-> np_sum(inv_mask),
     latched_value |-> LatchFunc(label, ChannelOf(Select(img, inv_mask), channel))]

\* Registers.tally(img, inv_mask) on the registers given
Registers_tally(registers, img, inv_mask) ==
    [blk  |-> Counter_tally_pixels(registers.blk, img, inv_mask),
     nclp |-> [c \in ChannelIndices |->
                 Counter_tally_channel_values(registers.nclp[c], "nclp", c, img, inv_mask)],
     zero |-> [c \in ChannelIndices |->
                 Counter_tally_channel_values(registers.zero[c], "zero", c, img, inv_mask)],
     pclp |-> [c \in ChannelIndices |->
                 Counter_tally_channel_values(registers.pclp[c], "pclp", c, img, inv_mask)],
     nbig |-> [c \in ChannelIndices |->
                 Latch_latch_max_channel_value(registers.nbig[c], "nbig", c, img, inv_mask)],
     ntin |-> [c \in ChannelIndices |->
                 Latch_latch_max_channel_value(registers.ntin[c], "ntin", c, img, inv_mask)],
     ptin |-> [c \in ChannelIndices |->
                 Latch_latch_max_channel_value(registers.ptin[c], "ptin", c, img, inv_mask)],
     pbig |-> [c \in ChannelIndices |->
                 Latch_latch_max_channel_value(registers.pbig[c], "pbig", c, img, inv_mask)]]

\* Registers(desc, domain, channel_names)
RegistersInit ==
    /\ rgStatus = "none"
    /\ rgStatus' = "constructed"
    /\ rgRegisters' = NewRegisters
    /\ UNCHANGED <<rgImg, rgMask, rgHadBlack>>
    /\ UNCHANGED <<lbVars, fcVars, sqVars, isVars>>

\* registers.tally(img, inv_mask)
RegistersTally(img, inv_mask) ==
    /\ rgStatus \in {"constructed", "tallied"}
    /\ rgStatus' = "tallied"
    /\ rgRegisters' = Registers_tally(rgRegisters, img, inv_mask)
    /\ rgImg' = img
    /\ rgMask' = inv_mask
    /\ rgHadBlack' = (rgRegisters.blk # None /\ rgRegisters.blk # Some(0))
    /\ UNCHANGED <<lbVars, fcVars, sqVars, isVars>>

\* Counter.summarize: "if self.count"
CounterSummarized(count) == count # None /\ count # Some(0)

\* Latch.summarize: "if self.latched_value"
LatchSummarized(latch) ==
    latch.latched_value # None /\ latch.latched_value # Some(Zero)

\* the order in which _setup_channel_counters and _setup_channel_latches
\* enter the registers into their dictionaries
CounterOrder == <<"nclp", "zero", "pclp">>
LatchOrder == <<"nbig", "ntin", "ptin", "pbig">>

\* Registers._some_nonzero_counter_seen(counters)
some_nonzero_counter_seen(counts) ==
    \E i \in DOMAIN counts : CounterSummarized(counts[i])

\* the channel counters, and the latches, in dictionary order
ChannelCounters(registers) ==
    [i \in 1..(3 * Len(CounterOrder)) |->
        [label |-> CounterOrder[((i - 1) \div 3) + 1],
         channel |-> (i - 1) % 3,
         count |-> registers[CounterOrder[((i - 1) \div 3) + 1]][(i - 1) % 3]]]

Latches(registers) ==
    [i \in 1..(3 * Len(LatchOrder)) |->
        [label |-> LatchOrder[((i - 1) \div 3) + 1],
         channel |-> (i - 1) % 3,
         latch |-> registers[LatchOrder[((i - 1) \div 3) + 1]][(i - 1) % 3]]]

\* Registers.summarize(): the lines of the report, a heading before the
\* pixel counters and before the channel counters when one of them is not
\* zero, and only the counters and latches that hold something
Registers_summarize(registers) ==
    LET pixel == <<[label |-> "blk", channel |-> -1, count |-> registers.blk]>>
        channel == ChannelCounters(registers)
        CountLine(c) == [line |-> "counter", label |-> c.label,
                         channel |-> c.channel, value |-> c.count]
        LatchLine(l) == [line |-> "latch", label |-> l.label,
                         channel |-> l.channel, value |-> l.latch.latched_value]
        Heading(text) == [line |-> text, label |-> "", channel |-> -1,
                          value |-> None]
        Lines(counters) ==
            LET kept == SelectSeq(counters,
                                  LAMBDA c : CounterSummarized(c.count))
            IN  [i \in DOMAIN kept |-> CountLine(kept[i])]
        latched == SelectSeq(Latches(registers),
                             LAMBDA l : LatchSummarized(l.latch))
    IN  (IF some_nonzero_counter_seen([i \in DOMAIN pixel |-> pixel[i].count])
            THEN <<Heading("pixel counters:")>> \o Lines(pixel) ELSE <<>>)
        \o (IF some_nonzero_counter_seen([i \in DOMAIN channel |-> channel[i].count])
            THEN <<Heading("channel counters:")>> \o Lines(channel) ELSE <<>>)
        \o [i \in DOMAIN latched |-> LatchLine(latched[i])]

\* mutant: the value replaces the list
extended_Overwrite(column, values) == <<values[Len(values)]>>

\* add_to_columns: the list of a key after the values handed in for it,
\* "columns[key] = [value]" for a new key (its list is empty here) and
\* "columns[key] += [value]" for every further value
extended(column, values) == column \o values

\* add_to_columns(columns, keys_and_values): every key of the pairs gets, in
\* the order of the pairs, the values paired with it
add_to_columns(cols, keys_and_values) ==
    LET written == {keys_and_values[i][1] : i \in DOMAIN keys_and_values}
        ValuesFor(key) ==
            LET pairs == SelectSeq(keys_and_values, LAMBDA kv : kv[1] = key)
            IN  [i \in DOMAIN pairs |-> pairs[i][2]]
    IN  [key \in DOMAIN cols \cup written |->
            IF key \notin written THEN cols[key]
            ELSE extended(IF key \in DOMAIN cols THEN cols[key] ELSE <<>>,
                          ValuesFor(key))]

\* the labels the three _setup methods give the registers
PixelCounterLabel(domain, func_label) == domain \o "_" \o func_label

ChannelLabel(domain, func_label, channel_name) ==
    domain \o "_" \o func_label \o "_" \o channel_name

\* Latch.add_to_columns: f"{self._label}_examined"
latch_examined_label(latch_label) == latch_label \o "_examined"

\* the (key, value) pairs Registers.add_to_columns hands to add_to_columns,
\* in its order: the pixel counter, the channel counters, and the two
\* entries of every latch
Registers_keys_and_values(registers, domain, channel_names) ==
    LET counters == ChannelCounters(registers)
        latches == Latches(registers)
    IN  <<<<PixelCounterLabel(domain, "blk"), registers.blk>>>>
        \o [i \in DOMAIN counters |->
              <<ChannelLabel(domain, counters[i].label,
                             channel_names[counters[i].channel + 1]),
                counters[i].count>>]
        \o [i \in 1..(2 * Len(latches)) |->
              LET l == latches[(i + 1) \div 2]
                  latch_label == ChannelLabel(domain, l.label,
                                              channel_names[l.channel + 1])
              IN  IF i % 2 = 1
                  THEN <<latch_examined_label(latch_label),
                         Some(l.latch.values_examined_count)>>
                  ELSE <<latch_label, l.latch.latched_value>>]

\* Registers.add_to_columns(columns)
Registers_add_to_columns(cols, registers, domain, channel_names) ==
    add_to_columns(cols,
                   Registers_keys_and_values(registers, domain, channel_names))

\* ------------------------------------------------------------ octant.py
\* Octant.keys(): blue varies slowest, red fastest; a key is <<r, g, b>>
keys_SkipAllFalse ==
    [i \in 1..7 |-> <<(i % 2) = 1, ((i \div 2) % 2) = 1, ((i \div 4) % 2) = 1>>]

keys ==
    [i \in 1..8 |-> <<((i - 1) % 2) = 1,
                      (((i - 1) \div 2) % 2) = 1,
                      (((i - 1) \div 4) % 2) = 1>>]

AllFalseKey == <<FALSE, FALSE, FALSE>>

\* mutant: "<= 0" where the code has "< 0"
ix_for_octant_ZeroNegative(octant_key, img) ==
    [i \in DOMAIN img |->
        \A chan \in ChannelIndices :
            IF octant_key[chan + 1]
            THEN ~ValLt(Zero, img[i][chan + 1])
            ELSE ~ValLt(img[i][chan + 1], Zero)]

\* Octant._ix_for_octant: channel < 0 where the key says negative, else >= 0
ix_for_octant(octant_key, img) ==
    [i \in DOMAIN img |->
        \A chan \in ChannelIndices :
            IF octant_key[chan + 1]
            THEN ValLt(img[i][chan + 1], Zero)
            ELSE ~ValLt(img[i][chan + 1], Zero)]

\* np.linspace(min_exp, max_exp, num), as grid exponents
linspace(min_exp, max_exp, num) ==
    [i \in 1..num |->
        IF num = 1 THEN min_exp * LogRes
        ELSE min_exp * LogRes
                 + ((i - 1) * (max_exp - min_exp) * LogRes) \div (num - 1)]

\* Octant._log10_edges: 0, the powers of ten of the linspace exponents, and
\* the largest half float.  The code rounds the powers to half precision; a
\* sample "10^k" of a half-float image is rounded the same way, so the
\* comparisons of samples with edges are those of the exact numbers.
log10_edges(min_exp, max_exp, nb) ==
    LET n == IF nb = 0 THEN 1 + max_exp - min_exp ELSE nb
        exps == linspace(min_exp, max_exp, n)
    IN  <<Zero>> \o [i \in 1..n |-> Pos(exps[i])] \o <<PosClip>>

\* mutant: the signs exchanged
to_first_octant_scalars_Flipped(octant_key) ==
    [c \in 1..3 |-> IF octant_key[c] THEN 1 ELSE -1]

\* [-1 if e else 1 for e in octant_key]
to_first_octant_scalars(octant_key) ==
    [c \in 1..3 |-> IF octant_key[c] THEN -1 ELSE 1]

\* pixel * scalars
Reflect(pixel, scalars) ==
    [c \in 1..3 |-> IF scalars[c] = -1 THEN Negate(pixel[c]) ELSE pixel[c]]

\* np.histogramdd along one axis: np.searchsorted(edges, x, side='right'),
\* less one when x is the last edge
Ncount(x, edges) ==
    Cardinality({j \in DOMAIN edges : ~ValLt(x, edges[j])})
        - (IF x = edges[Len(edges)] THEN 1 ELSE 0)

\* the sample falls inside the edges on every axis
InsideEdges(pixel, edges) ==
    \A c \in 1..3 : Ncount(pixel[c], edges) >= 1
                    /\ Ncount(pixel[c], edges) <= Len(edges) - 1

\* the cell of a sample inside the edges
CellOf(pixel, edges) == [c \in 1..3 |-> Ncount(pixel[c], edges) - 1]

\* np.histogramdd(sample, [edges] * 3): an array of Len(edges) - 1 cells per
\* axis; counts holds the cells that are not zero
histogramdd(sample, edges) ==
    LET inside == {i \in DOMAIN sample : InsideEdges(sample[i], edges)}
        cells == {CellOf(sample[i], edges) : i \in inside}
    IN  [shape |-> [c \in 1..3 |-> Len(edges) - 1],
         counts |-> [cell \in cells |->
                        Cardinality({i \in inside :
                                        CellOf(sample[i], edges) = cell})]]

\* Octant.__init__
NewOctant(octant_key, bin_min_exp, bin_max_exp, nb) ==
    [octant_key |-> octant_key,
     to_first_octant_scalars |-> to_first_octant_scalars(octant_key),
     edge |-> log10_edges(bin_min_exp, bin_max_exp, nb),
     samples_in_octant |-> 0,
     hist3d |-> [shape |-> [c \in 1..3 |-> nb], counts |-> <<>>],
     registers |-> NewRegisters,
     octant_ix |-> <<>>,
     img_in_octant |-> <<>>]

\* the array with the pixels written put at the places the mask selects
RECURSIVE Scatter(_, _, _)
Scatter(img, mask, written) ==
    IF img = <<>> THEN <<>>
    ELSE IF Head(mask)
         THEN <<Head(written)>> \o Scatter(Tail(img), Tail(mask), Tail(written))
         ELSE <<Head(img)>> \o Scatter(Tail(img), Tail(mask), written)

\* mutant: img_array[octant_ix] is a view, so "*=" writes into img_array
AfterInPlaceProduct_View(img, octant_ix, img_in_octant) ==
    Scatter(img, octant_ix, img_in_octant)

\* img_array after "img_in_octant = img_array[octant_ix]" and
\* "img_in_octant *= scalars": indexing with a boolean mask makes a new array,
\* so the product is written there and img_array keeps its samples
AfterInPlaceProduct(img, octant_ix, img_in_octant) == img

\* Octant._bin: the masked pixels are copied, reflected and binned
Octant_bin(octant, img, octant_ix) ==
    LET selected == Select(img, octant_ix)
        img_in_octant == [i \in DOMAIN selected |->
                             Reflect(selected[i], octant.to_first_octant_scalars)]
    IN  [hist3d |-> histogramdd(img_in_octant, octant.edge),
         img_in_octant |-> img_in_octant,
         img_array |-> AfterInPlaceProduct(img, octant_ix, img_in_octant)]

\* Octant.tally(img_array): the octant after the call and the array after it;
\* octant_ix and img_in_octant keep the locals of the call
Octant_tally(octant, img) ==
    LET octant_ix == ix_for_octant(octant.octant_key, img)
        binned == Octant_bin(octant, img, octant_ix)
    IN  [octant |-> [octant EXCEPT
                        !.octant_ix = octant_ix,
                        !.samples_in_octant = np_sum(octant_ix),
                        !.hist3d = binned.hist3d,
                        !.img_in_octant = binned.img_in_octant,
                        !.registers = Registers_tally(octant.registers,
                                                      binned.img_array, octant_ix)],
         img_array |-> binned.img_array]

\* mutant: the name of an octant without the signs
name_pieces_Unsigned(octant_key, channel_names, i) == channel_names[i]

\* Octant._name: f"{name}{'-' if negativity else '+'}"
name_pieces(octant_key, channel_names, i) ==
    channel_names[i] \o (IF octant_key[i] THEN "-" ELSE "+")

\* Octant.label(): f"oct_{self._name(['r', 'g', 'b'], '')}"
Octant_label(octant_key) ==
    "oct_" \o name_pieces(octant_key, <<"r", "g", "b">>, 1)
           \o name_pieces(octant_key, <<"r", "g", "b">>, 2)
           \o name_pieces(octant_key, <<"r", "g", "b">>, 3)

\* -------------------------------------------------------- frame_c18n.py
\* mutant: the result of ImageInput.open is not compared with None
FileNotFoundError_StatOnly(state) == state = "missing"

\* the constructor raises FileNotFoundError: path.stat() raises it for a
\* missing file, and "if self._image_input is None" for a file that
\* ImageInput.open could not read
FileNotFoundError(state) == state \in {"missing", "unreadable"}

\* FrameC18n.__init__(path, bin_min_exp, bin_max_exp, num_bins); nb = 0
\* stands for num_bins=None ("if not num_bins")
FrameC18nInit(state, pixels, bin_min_exp, bin_max_exp, nb) ==
    LET n == IF nb = 0 THEN 1 + bin_max_exp - bin_min_exp ELSE nb
    IN  /\ fcStatus = "none"
        /\ file' = [state |-> state, pixels |-> pixels]
        /\ IF FileNotFoundError(state)
           THEN \* nothing is constructed
                /\ fcStatus' = "failed"
                /\ UNCHANGED <<fc_num_bins, overall_registers, octants>>
           ELSE /\ fcStatus' = "constructed"
                /\ fc_num_bins' = n
                /\ overall_registers' = NewRegisters
                /\ octants' = [k \in Range(keys) |->
                                  NewOctant(k, bin_min_exp, bin_max_exp, n)]
        /\ summary' = None
        /\ UNCHANGED <<img_array, overall_mask, pending, last_tally>>
        /\ UNCHANGED <<lbVars, rgVars, sqVars, isVars>>

\* "for octant in self.octants.values(): octant.tally(img_array)": the
\* octants are tallied in the order of Octant.keys(), each on the array the
\* one before it left
RECURSIVE TallyOctants(_, _, _)
TallyOctants(i, octs, img) ==
    IF i > Len(keys) THEN [octants |-> octs, img_array |-> img]
    ELSE LET tallied == Octant_tally(octs[keys[i]], img)
         IN  TallyOctants(i + 1, [octs EXCEPT ![keys[i]] = tallied.octant],
                          tallied.img_array)

\* FrameC18n.tally()
FrameC18n_tally ==
    LET img == file.pixels
        after == TallyOctants(1, octants, img)
    IN  /\ fcStatus \in {"constructed", "tallied"}
        /\ overall_mask' = np_full_True(img)
        /\ overall_registers' = Registers_tally(overall_registers, img, np_full_True(img))
        /\ octants' = after.octants
        /\ img_array' = after.img_array
        /\ fcStatus' = "tallied"
        /\ summary' = None
        /\ UNCHANGED <<file, fc_num_bins, pending, last_tally>>
        /\ UNCHANGED <<lbVars, rgVars, sqVars, isVars>>

\* the tallies FrameC18n.tally makes: that of the overall Registers, named
\* by the empty key, and those of the octants
Overall == <<>>
Tallies == {Overall} \cup Range(keys)

\* FrameC18n.tally with its tallies in any order, first part: read_image
FrameC18n_tally_read ==
    /\ fcStatus \in {"constructed", "tallied"}
    /\ fcStatus' = "tallying"
    /\ img_array' = file.pixels
    /\ pending' = Tallies
    /\ last_tally' = None
    /\ summary' = None
    /\ UNCHANGED <<file, fc_num_bins, overall_registers, overall_mask, octants>>
    /\ UNCHANGED <<lbVars, rgVars, sqVars, isVars>>

\* "self._overall_registers.tally(img_array, np.full(...))", at any place in
\* the order
FrameC18n_tally_overall ==
    /\ fcStatus = "tallying"
    /\ Overall \in pending
    /\ pending' = pending \ {Overall}
    /\ fcStatus' = IF pending' = {} THEN "tallied" ELSE "tallying"
    /\ last_tally' = IF pending' = {} THEN Some(Overall) ELSE None
    /\ overall_mask' = np_full_True(img_array)
    /\ overall_registers' = Registers_tally(overall_registers, img_array,
                                            np_full_True(img_array))
    /\ UNCHANGED <<file, fc_num_bins, img_array, octants, summary>>
    /\ UNCHANGED <<lbVars, rgVars, sqVars, isVars>>

\* "octant.tally(img_array)" for the octant of key k, at any place in the
\* order
FrameC18n_tally_octant(k) ==
    LET tallied == Octant_tally(octants[k], img_array)
    IN  /\ fcStatus = "tallying"
        /\ k \in pending
        /\ pending' = pending \ {k}
        /\ fcStatus' = IF pending' = {} THEN "tallied" ELSE "tallying"
        /\ last_tally' = IF pending' = {} THEN Some(k) ELSE None
        /\ octants' = [octants EXCEPT ![k] = tallied.octant]
        /\ img_array' = tallied.img_array
        /\ UNCHANGED <<file, fc_num_bins, overall_registers, overall_mask,
                       summary>>
        /\ UNCHANGED <<lbVars, rgVars, sqVars, isVars>>

\* FrameC18n.add_to_columns(columns) from the i-th octant on, in the order
\* of the dictionary
RECURSIVE OctantsToColumns(_, _, _, _)
OctantsToColumns(cols, octs, channel_names, i) ==
    IF i > Len(keys) THEN cols
    ELSE OctantsToColumns(
             Registers_add_to_columns(cols, octs[keys[i]].registers,
                                      Octant_label(keys[i]), channel_names),
             octs, channel_names, i + 1)

\* FrameC18n.add_to_columns(columns): the overall registers, then the octants
FrameC18n_add_to_columns(cols, overall, octs, channel_names) ==
    OctantsToColumns(
        Registers_add_to_columns(cols, overall, "overall", channel_names),
        octs, channel_names, 1)

\* mutant: a section for every octant
SectionEmitted_Always(octant) == TRUE

\* summarize: "if samples_in_octant := octant.samples_in_octant"
SectionEmitted(octant) == octant.samples_in_octant # 0

\* the section of one octant: its heading and Octant.summarize()
OctantSection(octant) ==
    [octant |-> octant.octant_key,
     samples_in_octant |-> octant.samples_in_octant,
     lines |-> Registers_summarize(octant.registers)]

\* FrameC18n.summarize(): the statistics of the whole image, then one section
\* for each octant, in the order of the dictionary
FrameC18n_summarize ==
    /\ fcStatus \in {"constructed", "tallied"}
    /\ summary' = Some(
          [overall |-> Registers_summarize(overall_registers),
           sections |-> [i \in DOMAIN SelectSeq(keys,
                                LAMBDA k : SectionEmitted(octants[k])) |->
                           OctantSection(octants[SelectSeq(keys,
                                LAMBDA k : SectionEmitted(octants[k]))[i]])]])
    /\ UNCHANGED <<fcStatus, file, fc_num_bins, img_array, overall_registers,
                   overall_mask, octants, pending, last_tally>>
    /\ UNCHANGED <<lbVars, rgVars, sqVars, isVars>>

\* ------------------------------------------------------- sequence_c18n.py
\* FrameC18n(Path(frame)) takes the defaults bin_min_exp=-4, bin_max_exp=2
\* and num_bins=None
DefaultBinMinExp == -4
DefaultBinMaxExp == 2
DefaultNumBins == 1 + DefaultBinMaxExp - DefaultBinMinExp

\* characterize_frames up to its loop: "columns = {}". The method can be
\* called on a new instance and again after it has returned or raised;
\* self._dataframe keeps what an earlier call assigned
characterize_frames_begin ==
    /\ sqStatus \in {"idle", "characterized", "raised"}
    /\ sqStatus' = "characterizing"
    /\ columns' = <<>>
    /\ frames' = <<>>
    /\ saved' = ""
    /\ empty_is_error' = TRUE
    /\ UNCHANGED dataframe
    /\ UNCHANGED <<lbVars, fcVars, rgVars, isVars>>

\* one round of the loop of characterize_frames, for a frame file in the
\* given state and with the given channel names and pixels:
\* FrameC18n(Path(frame)), tally(), add_to_columns(columns). The exception
\* of the constructor leaves characterize_frames, and with it the local
\* dictionary columns, before self._dataframe is assigned
characterize_frame(state, channel_names, pixels) ==
    LET overall == Registers_tally(NewRegisters, pixels, np_full_True(pixels))
        octs == TallyOctants(1, [k \in Range(keys) |->
                                   NewOctant(k, DefaultBinMinExp,
                                             DefaultBinMaxExp, DefaultNumBins)],
                             pixels).octants
    IN  /\ sqStatus = "characterizing"
        /\ Len(frames) < MaxFrames
        /\ IF FileNotFoundError(state)
           THEN /\ sqStatus' = "raised"
                /\ columns' = <<>>
                /\ frames' = <<>>
           ELSE /\ frames' = Append(frames,
                                 [channel_names |-> channel_names,
                                  overall_registers |-> overall,
                                  registers |-> [k \in Range(keys) |->
                                                    octs[k].registers]])
                /\ columns' = FrameC18n_add_to_columns(columns, overall, octs,
                                                       channel_names)
                /\ UNCHANGED sqStatus
        /\ saved' = ""
        /\ UNCHANGED <<dataframe, empty_is_error>>
        /\ UNCHANGED <<lbVars, fcVars, rgVars, isVars>>

\* pd.DataFrame(columns) raises ValueError when the lists of the dictionary
\* differ in length
DataFrameRaises(cols) ==
    \E j \in DOMAIN cols, k \in DOMAIN cols : Len(cols[j]) # Len(cols[k])

\* pd.DataFrame(columns): a row for every entry of the lists, a column for
\* every key
DataFrame(cols) ==
    [index |-> IF DOMAIN cols = {} THEN 0
               ELSE Len(cols[CHOOSE k \in DOMAIN cols : TRUE]),
     columns |-> DOMAIN cols]

\* characterize_frames after its loop: "self._dataframe = pd.DataFrame(columns)";
\* the local dictionary columns ends with the call
characterize_frames_end ==
    /\ sqStatus = "characterizing"
    /\ IF DataFrameRaises(columns)
       THEN /\ sqStatus' = "raised"
            /\ UNCHANGED dataframe
       ELSE /\ sqStatus' = "characterized"
            /\ dataframe' = Some(DataFrame(columns))
    /\ columns' = <<>>
    /\ frames' = <<>>
    /\ saved' = ""
    /\ UNCHANGED empty_is_error
    /\ UNCHANGED <<lbVars, fcVars, rgVars, isVars>>

\* the condition of the raise of save:
\* "not (len(index) == 0 and len(columns)) and empty_is_error"
SaveRaises(df, e) ==
    ~(df.index = 0 /\ Cardinality(df.columns) # 0) /\ e

\* SequenceC18n.save(path, empty_is_error); until a characterize_frames call
\* has assigned it, self._dataframe is None and has no attribute index
save(e) ==
    /\ sqStatus \in {"idle", "characterized", "raised"}
    /\ empty_is_error' = e
    /\ saved' = IF dataframe = None THEN "AttributeError"
                ELSE IF SaveRaises(dataframe[1], e) THEN "RuntimeError"
                ELSE "written"
    /\ UNCHANGED <<sqStatus, columns, frames, dataframe>>
    /\ UNCHANGED <<lbVars, fcVars, rgVars, isVars>>

\* ------------------------------------------------------ image_sequence.py
\* range(start, stop), and the list of its elements
range(start, stop) == [start |-> start, stop |-> stop]
list(r) == [i \in 1..(IF r.stop > r.start THEN r.stop - r.start ELSE 0) |->
               r.start + i - 1]

\* mutant: one key for every element
GroupKey_Constant(numbers, i) == 0

\* the key of groupby for the i-th element of enumerate(frame_numbers),
\* "lambda ix: ix[0] - ix[1]"; enumerate counts from 0
GroupKey(numbers, i) == (i - 1) - numbers[i]

\* itertools.groupby: the runs of successive elements with equal keys, each
\* run as the list of its frame numbers
RECURSIVE groupby(_, _, _)
groupby(numbers, i, groups) ==
    IF i > Len(numbers) THEN groups
    ELSE IF i > 1 /\ GroupKey(numbers, i) = GroupKey(numbers, i - 1)
         THEN groupby(numbers, i + 1,
                      [groups EXCEPT ![Len(groups)] = Append(@, numbers[i])])
         ELSE groupby(numbers, i + 1, Append(groups, <<numbers[i]>>))

\* _contiguous_ranges(frame_numbers), as a function
contiguous_ranges_of(numbers) ==
    LET groups == groupby(numbers, 1, <<>>)
    IN  [j \in DOMAIN groups |->
            range(groups[j][1], groups[j][1] + Len(groups[j]))]

\* the call _contiguous_ranges(frame_numbers)
contiguous_ranges ==
    /\ ranges = None
    /\ ranges' = Some(contiguous_ranges_of(frame_numbers))
    /\ UNCHANGED frame_numbers
    /\ UNCHANGED <<lbVars, fcVars, rgVars, sqVars>>

\* ------------------------------------------------------- frame behaviours
\* one pixel of every sign pattern, and pixels with zero channels
SignPixels ==
    {<<IF k[1] THEN Neg(0) ELSE Pos(0), IF k[2] THEN Neg(0) ELSE Pos(0),
       IF k[3] THEN Neg(0) ELSE Pos(0)>> : k \in Range(keys)}
    \cup {<<Zero, Zero, Zero>>, <<Zero, Neg(0), Zero>>, <<Neg(0), Zero, Pos(0)>>}

\* pixels with clip values and with magnitudes of other decades
ExtraPixels ==
    {<<NegClip, Pos(ExpSpan * LogRes), Neg(-ExpSpan * LogRes)>>,
     <<PosClip, Neg(ExpSpan * LogRes), Pos(-ExpSpan * LogRes)>>,
     <<Neg(LogRes \div 2), Neg(-LogRes \div 2), Neg(ExpSpan * LogRes)>>,
     <<Pos(LogRes \div 2), Pos(-LogRes \div 2), Pos(ExpSpan * LogRes)>>,
     <<Neg((ExpSpan + 1) * LogRes), Zero, Pos(-(ExpSpan + 1) * LogRes)>>,
     <<Pos((ExpSpan + 1) * LogRes), NegClip, PosClip>>,
     \* about (-2, 3, -5)
     <<Neg(LogRes \div 3), Pos(LogRes \div 2), Neg((2 * LogRes) \div 3)>>}

ImagePixels == SignPixels \cup ExtraPixels

Images == UNION {[1..n -> ImagePixels] : n \in 1..MaxPixels}

NoFrame ==
    /\ fcStatus = "none"
    /\ file = [state |-> "missing", pixels |-> <<>>]
    /\ fc_num_bins = 0
    /\ img_array = <<>>
    /\ overall_registers = NewRegisters
    /\ overall_mask = <<>>
    /\ octants = <<>>
    /\ summary = None
    /\ pending = {}
    /\ last_tally = None

\* SequenceC18n(): no sequences yet, self._dataframe = None
NoSequence ==
    /\ sqStatus = "idle"
    /\ columns = <<>>
    /\ frames = <<>>
    /\ dataframe = None
    /\ saved = ""
    /\ empty_is_error = TRUE

NoRanges ==
    /\ frame_numbers = <<>>
    /\ ranges = None

\* ----------------------------------------------------- LogBins behaviours
NoLogBins ==
    /\ lbStatus = "none"
    /\ log_max = 0
    /\ log_min = 0
    /\ num_underflowed = 0
    /\ num_overflowed = 0
    /\ bins = zeros(0)
    /\ ctorArgs = [log_max |-> 0, log_min |-> 0, given |-> FALSE, num_bins |-> 0]
    /\ calls = 0
    /\ positiveCalls = 0
    /\ lastOp = "none"
    /\ lastValue = Zero
    /\ lastIx = 0
    /\ lastErr = ""
    /\ lastRet = -1
    /\ lastBounds = <<>>
    /\ prev = [over |-> 0, under |-> 0, bins |-> zeros(0)]

NoRegisters ==
    /\ rgStatus = "none"
    /\ rgRegisters = NewRegisters
    /\ rgImg = <<>>
    /\ rgMask = <<>>
    /\ rgHadBlack = FALSE

InitBins == NoLogBins /\ NoFrame /\ NoRegisters /\ NoSequence /\ NoRanges

NextBins ==
    \/ \E lmax \in Exponents, lmin \in Exponents, given \in BOOLEAN,
          nb \in (-1)..MaxNumBins : LogBinsInit(lmax, lmin, given, nb)
    \/ \E value \in AddValues(Self) : add_entry(value)
    \/ \E ix \in BoundsIndices : bin_bounds(ix)

SpecBins == InitBins /\ [][NextBins]_vars


InitFrame == NoLogBins /\ NoFrame /\ NoRegisters /\ NoSequence /\ NoRanges

NextFrame ==
    \/ \E state \in {"missing", "unreadable"} :
          FrameC18nInit(state, <<>>, 0, 1, 0)
    \/ \E pixels \in Images, nb \in {0, MaxNumBins - 1} :
          FrameC18nInit("ok", pixels, -ExpSpan, ExpSpan, nb)
    \/ FrameC18n_tally

SpecFrame == InitFrame /\ [][NextFrame]_vars

\* ------------------------------------------------- a frame and its summary
\* images of no pixel up to MaxPixels pixels, by sign pattern
SummaryImages == UNION {[1..n -> SignPixels] : n \in 0..MaxPixels}

NextSummary ==
    \/ \E pixels \in SummaryImages :
          FrameC18nInit("ok", pixels, -ExpSpan, ExpSpan, 0)
    \/ FrameC18n_tally
    \/ FrameC18n_summarize

SpecSummary == InitFrame /\ [][NextSummary]_vars

\* ------------------------------------------ Octant and LogBins side by side
\* a frame of one pixel is characterized, and a LogBins instance is built
\* with the exponents the frame hands to its octants
OnePixelImages == [1..1 -> ImagePixels]

NextOctantBins ==
    \/ \E pixels \in OnePixelImages, nb \in {0, MaxNumBins - 1} :
          FrameC18nInit("ok", pixels, -ExpSpan, ExpSpan, nb)
    \/ FrameC18n_tally
    \/ \E nb \in 1..MaxNumBins : LogBinsInit(ExpSpan, -ExpSpan, TRUE, nb)

SpecOctantBins == InitFrame /\ [][NextOctantBins]_vars

\* --------------------------------------------------- Registers behaviours
\* pixels handed to a Registers instance: channel 0 holds negative samples of
\* three magnitudes (about -3, -8 and -12), channel 1 zeros and both clip
\* values, channel 2 positive samples of two magnitudes and the positive clip
RegisterPixels ==
    {<<Zero, Zero, Zero>>,
     <<Neg(LogRes \div 2), Zero, Pos(LogRes \div 2)>>,
     <<Neg(LogRes - 1), NegClip, PosClip>>,
     <<Neg(LogRes + 1), PosClip, Pos(LogRes + 1)>>}

RegisterImages == UNION {[1..n -> RegisterPixels] : n \in 1..MaxPixels}

\* the inclusion masks that fit an image
MasksOf(img) == [DOMAIN img -> BOOLEAN]

InitRegisters == NoLogBins /\ NoFrame /\ NoRegisters /\ NoSequence /\ NoRanges

NextRegisters ==
    \/ RegistersInit
    \/ \E img \in RegisterImages : \E inv_mask \in MasksOf(img) :
          RegistersTally(img, inv_mask)

SpecRegisters == InitRegisters /\ [][NextRegisters]_vars

\* ------------------------------------------ a frame tallied in any order
\* pixels of three octants, one of them with a zero channel
OrderPixels ==
    {<<Neg(0), Pos(LogRes \div 2), Neg(LogRes)>>,
     <<Pos(0), Neg(LogRes \div 2), Zero>>,
     <<Neg(LogRes \div 2), Neg(0), Neg(-LogRes)>>}

OrderImages == UNION {[1..n -> OrderPixels] : n \in 1..MaxPixels}

NextOrder ==
    \/ \E pixels \in OrderImages :
          FrameC18nInit("ok", pixels, -ExpSpan, ExpSpan, 0)
    \/ FrameC18n_tally_read
    \/ FrameC18n_tally_overall
    \/ \E k \in Range(keys) : FrameC18n_tally_octant(k)

SpecOrder == InitFrame /\ [][NextOrder]_vars

\* --------------------------------------------------- SequenceC18n behaviours
\* the channel names of the frame files
ChannelNames == {<<"R", "G", "B">>, <<"Y", "RY", "BY">>}

\* the pixels of the frame files: one pixel, or two with a black one
SequenceImages ==
    {<<<<Neg(0), Pos(LogRes \div 2), Neg(LogRes)>>>>,
     <<<<Zero, Zero, Zero>>, <<PosClip, NegClip, Zero>>>>}

InitSequence == NoLogBins /\ NoFrame /\ NoRegisters /\ NoSequence /\ NoRanges

NextSequence ==
    \/ characterize_frames_begin
    \/ \E channel_names \in ChannelNames, pixels \in SequenceImages :
          characterize_frame("ok", channel_names, pixels)
    \/ characterize_frame("unreadable", <<>>, <<>>)
    \/ characterize_frames_end
    \/ \E e \in BOOLEAN : save(e)

SpecSequence == InitSequence /\ [][NextSequence]_vars

\* ---------------------------------------------- _contiguous_ranges behaviours
\* the lists of frame numbers handed to _contiguous_ranges: every list of
\* up to MaxListLen numbers, in any order and with repetitions
FrameNumberLists ==
    UNION {[1..n -> 0..MaxFrameNumber] : n \in 0..MaxListLen}

InitRanges ==
    /\ NoLogBins /\ NoFrame /\ NoRegisters /\ NoSequence
    /\ frame_numbers \in FrameNumberLists
    /\ ranges = None

NextRanges == contiguous_ranges

SpecRanges == InitRanges /\ [][NextRanges]_vars

\* ------------------------------------------------------- claims on LogBins
\* v lies strictly between the two components of pair, whatever their order
StrictlyInside(v, pair) ==
    \/ ValLt(pair[1], v) /\ ValLt(v, pair[2])
    \/ ValLt(pair[2], v) /\ ValLt(v, pair[1])

\* the last call was an add_entry with a positive value
AddedPositive == lastOp = "add_entry" /\ lastValue.sgn > 0

\* number of bins the constructor call asked for
RequestedBins ==
    IF ctorArgs.given THEN ctorArgs.num_bins
                      ELSE ctorArgs.log_max - ctorArgs.log_min

\* C4 as stated: for every LogBins instance and after any sequence of
\* add_entry calls with positive values, num_overflowed + num_underflowed +
\* the sum of all bin counts equals the number of add_entry calls made on
\* that instance.
C4_EveryInstance ==
    (lbStatus = "live" /\ positiveCalls = calls)
        => num_overflowed + num_underflowed + SumBins(bins) = calls

\* C4, amended: on an instance with at least one bin, after any sequence of add_entry
\* calls with positive values, num_overflowed + num_underflowed + the sum of
\* the bin counts equals the number of add_entry calls made.
C4_CountersSumToCalls ==
    (lbStatus = "live" /\ len(bins) >= 1 /\ positiveCalls = calls)
        => num_overflowed + num_underflowed + SumBins(bins) = calls

C4_Witness ==
    /\ lbStatus = "live" /\ len(bins) >= 1
    /\ positiveCalls = calls /\ calls >= 2
    /\ SumBins(bins) >= 1
    /\ num_overflowed + num_underflowed >= 1

\* the double math.log10 returned for the value of the last add_entry call
\* is above log_max, and is at most log_min
LogAboveMax ==
    LET l == log10(lastValue)
    IN  l.n > log_max * l.d \/ (l.n = log_max * l.d /\ l.t > 0)
LogAtMostMin ==
    LET l == log10(lastValue)
    IN  l.n < log_min * l.d \/ (l.n = log_min * l.d /\ l.t <= 0)

\* C5 as stated: add_entry(value) increments the overflow counter and
\* returns no bin exactly when log10(value) > log_max, and increments the
\* underflow counter and returns no bin exactly when log10(value) <= log_min;
\* in both cases no bin count changes.  So 10^log_max is not overflow and
\* 10^log_min is underflow.
C5_ThresholdsAsStated ==
    AddedPositive =>
        /\ num_overflowed = prev.over + (IF LogAboveMax THEN 1 ELSE 0)
        /\ num_underflowed = prev.under + (IF LogAtMostMin THEN 1 ELSE 0)
        /\ (LogAboveMax \/ LogAtMostMin) => (lastRet = -1 /\ bins = prev.bins)
        /\ (lastValue = TenTo(log_max)) => num_overflowed = prev.over
        /\ (lastValue = TenTo(log_min)) => num_underflowed = prev.under + 1

\* C5, amended: add_entry(value) increments the overflow counter and returns
\* no bin exactly when log10(value) > log_max, and increments the underflow
\* counter and returns no bin exactly when log10(value) <= log_min and not
\* log10(value) > log_max; in both cases no bin count changes.  log10(value)
\* is the double math.log10 returns.  So 10^log_max is never overflow, and
\* is in range when log_min < log_max; 10^log_min is underflow when
\* log_min <= log_max.
C5_OverflowUnderflowThresholds ==
    AddedPositive =>
        LET over == LogAboveMax
            under == LogAtMostMin /\ ~LogAboveMax
        IN  /\ num_overflowed = prev.over + (IF over THEN 1 ELSE 0)
            /\ num_underflowed = prev.under + (IF under THEN 1 ELSE 0)
            /\ (over \/ under) => (lastRet = -1 /\ bins = prev.bins)
            /\ (lastValue = TenTo(log_max)) =>
                  /\ num_overflowed = prev.over
                  /\ log_min < log_max => num_underflowed = prev.under
            /\ (lastValue = TenTo(log_min) /\ log_min <= log_max) =>
                  num_underflowed = prev.under + 1

C5_Witness ==
    /\ AddedPositive /\ log_min < log_max
    /\ lastValue = TenTo(log_min)
    /\ num_underflowed = prev.under + 1
    /\ prev.over >= 1

\* C6: with one bin per decade (num_bins = log_max - log_min), add_entry of a
\* value v with 10^(log_max-k-1) < v <= 10^(log_max-k) returns k and
\* increments bin k and nothing else, for every k in [0, num_bins); and of two
\* in-range values the larger never gets the larger index.
C6_OneBinPerDecade ==
    (lbStatus = "live" /\ len(bins) = log_max - log_min /\ len(bins) >= 1) =>
        /\ AddedPositive =>
             \A k \in 0..(len(bins) - 1) :
                 (/\ ValLt(TenTo(log_max - k - 1), lastValue)
                  /\ ~ValLt(TenTo(log_max - k), lastValue))
                 => /\ lastRet = k
                    /\ lastErr = ""
                    /\ bins = [prev.bins EXCEPT ![k] = @ + 1]
                    /\ num_overflowed = prev.over
                    /\ num_underflowed = prev.under
        /\ (AddedPositive /\ lastErr = "" /\ lastRet >= 0) =>
             \A w \in AddValues(Self) :
                 (AddEntryOutcome(Self, w).kind = "bin" /\ ValLt(lastValue, w))
                 => AddEntryOutcome(Self, w).ix <= lastRet

\* C7: for every valid ix, add_entry of a value strictly between the two
\* components bin_bounds(ix) returns gives back ix and increments bin ix,
\* and neither another bin nor a counter.
C7_BoundsRoundTrip ==
    AddedPositive =>
        \A ix \in 0..(len(bins) - 1) :
            StrictlyInside(lastValue, BinBoundsOutcome(Self, ix).bounds)
            => /\ lastRet = ix
               /\ lastErr = ""
               /\ bins = [prev.bins EXCEPT ![ix] = @ + 1]
               /\ num_overflowed = prev.over
               /\ num_underflowed = prev.under

\* C8: for every valid ix, the first component of the pair bin_bounds(ix)
\* returns is strictly smaller than the second.
C8_LowerBeforeUpper ==
    (lastOp = "bin_bounds" /\ lastErr = "")
        => ValLt(lastBounds[1], lastBounds[2])

\* C9: bin_bounds(ix) raises for every ix outside [0, num_bins) and returns
\* nothing then; failed or not, it leaves overflow, underflow and every bin
\* count unchanged.
C9_BinBoundsRange ==
    lastOp = "bin_bounds" =>
        /\ (lastIx < 0 \/ lastIx >= len(bins))
              => (lastErr = "AssertionError" /\ lastBounds = <<>>)
        /\ num_overflowed = prev.over
        /\ num_underflowed = prev.under
        /\ bins = prev.bins

C9_Witness ==
    /\ lastOp = "bin_bounds"
    /\ len(bins) >= 1
    /\ lastIx = len(bins)
    /\ lastErr = "AssertionError"
    /\ SumBins(bins) >= 1

\* C10 as stated: a constructor call with num_bins <= 0 or with
\* log_min >= log_max fails, so no such instance exists.
C10_InvalidConfigurationRejected ==
    /\ (lastOp = "ctor" /\ (RequestedBins <= 0
                            \/ ctorArgs.log_min >= ctorArgs.log_max))
          => lbStatus = "ctor_failed"
    /\ lbStatus = "live" => (len(bins) >= 1 /\ log_min < log_max)

\* C10 amended: the constructor fails exactly when the number of bins is
\* negative; any other call, also one with zero bins or with
\* log_min >= log_max, yields an instance with the given exponents, that many
\* bins, all of them and both counters zero.
C10_OnlyNegativeBinCountRejected ==
    lastOp = "ctor" =>
        /\ lbStatus = "ctor_failed" <=> RequestedBins < 0
        /\ lbStatus = "ctor_failed" => lastErr = "ValueError"
        /\ lbStatus = "live" =>
              /\ log_max = ctorArgs.log_max
              /\ log_min = ctorArgs.log_min
              /\ len(bins) = RequestedBins
              /\ \A i \in DOMAIN bins : bins[i] = 0
              /\ num_overflowed = 0
              /\ num_underflowed = 0

C10_Witness ==
    /\ lastOp = "ctor"
    /\ lbStatus = "live"
    /\ log_min > log_max
    /\ len(bins) = MaxNumBins


\* ----------------------------------------------------- claims on FrameC18n
\* the key that is True exactly on the channels whose value is < 0
NegPattern(pixel) == [c \in 1..3 |-> ValLt(pixel[c], Zero)]

NoNegativeChannel(pixel) == \A c \in 1..3 : ~ValLt(pixel[c], Zero)

\* number of pixels of the image without a negative channel
NonNegativePixels(img) ==
    Cardinality({i \in DOMAIN img : NoNegativeChannel(img[i])})

RECURSIVE SumSamples(_)
SumSamples(ks) ==
    IF ks = {} THEN 0
    ELSE LET k == CHOOSE x \in ks : TRUE
         IN  octants[k].samples_in_octant + SumSamples(ks \ {k})

AllKeys == {<<r, g, b>> : r \in BOOLEAN, g \in BOOLEAN, b \in BOOLEAN}

\* C1 as stated: after tally, the samples_in_octant of all the Octants the
\* frame owns, plus the number of pixels without a negative channel, add up
\* to the number of pixels.
C1_OctantsPlusNonNegative ==
    fcStatus = "tallied" =>
        SumSamples(DOMAIN octants) + NonNegativePixels(img_array)
            = Len(img_array)

\* C1 amended: after tally, the samples_in_octant of the seven Octants whose
\* key has a negative channel, plus the number of pixels without a negative
\* channel, add up to the number of pixels; the eighth, all-false Octant
\* counts exactly the pixels without a negative channel, so the sum over all
\* eight Octants is the number of pixels.
C1_SevenOctantsPlusNonNegative ==
    fcStatus = "tallied" =>
        /\ SumSamples(DOMAIN octants \ {AllFalseKey})
               + NonNegativePixels(img_array) = Len(img_array)
        /\ SumSamples(DOMAIN octants) = Len(img_array)

C1_Witness ==
    /\ fcStatus = "tallied"
    /\ Len(img_array) >= 2
    /\ NonNegativePixels(img_array) >= 1
    /\ SumSamples(DOMAIN octants \ {AllFalseKey}) >= 1

\* C2 as stated: construction instantiates exactly 7 Octants, none of them
\* for the all-false key.
C2_SevenOctants ==
    fcStatus \in {"constructed", "tallied"} =>
        /\ Cardinality(DOMAIN octants) = 7
        /\ AllFalseKey \notin DOMAIN octants

\* C2 amended: construction instantiates exactly 8 Octants, one for every
\* key, the all-false key included; tally tallies the all-false Octant like
\* the others, on the pixels without a negative channel.
C2_EightOctants ==
    fcStatus \in {"constructed", "tallied"} =>
        /\ DOMAIN octants = AllKeys
        /\ \A k \in DOMAIN octants : octants[k].octant_key = k
        /\ fcStatus = "tallied" =>
              /\ octants[AllFalseKey].octant_ix =
                    [i \in DOMAIN img_array |-> NoNegativeChannel(img_array[i])]
              /\ octants[AllFalseKey].samples_in_octant =
                    NonNegativePixels(img_array)

C2_Witness ==
    /\ fcStatus = "tallied"
    /\ Cardinality(DOMAIN octants) = 8
    /\ octants[AllFalseKey].samples_in_octant >= 1
    /\ octants[AllFalseKey].registers.blk = Some(1)

\* C3: one tally passes every pixel to the overall registers once, under an
\* all-true mask, and the membership mask of an Octant selects a pixel
\* exactly when its key is True on the channels that are < 0 and False on
\* the others (zero is not negative); so no pixel is selected by two keys.
C3_PixelInOneOctant ==
    fcStatus = "tallied" =>
        /\ overall_mask = [i \in DOMAIN img_array |-> TRUE]
        /\ \A c \in ChannelIndices :
              /\ overall_registers.nbig[c].values_examined_count = Len(img_array)
              /\ overall_registers.zero[c] =
                    Some(Cardinality({i \in DOMAIN img_array :
                                         img_array[i][c + 1] = Zero}))
        /\ \A k \in DOMAIN octants :
              /\ DOMAIN octants[k].octant_ix = DOMAIN img_array
              /\ \A i \in DOMAIN img_array :
                    octants[k].octant_ix[i] <=> (k = NegPattern(img_array[i]))
        /\ \A k1 \in DOMAIN octants, k2 \in DOMAIN octants :
              \A i \in DOMAIN img_array :
                  (octants[k1].octant_ix[i] /\ octants[k2].octant_ix[i])
                      => k1 = k2

C3_Witness ==
    /\ fcStatus = "tallied"
    /\ Len(img_array) >= 2
    /\ img_array[1] = <<Zero, Neg(0), Zero>>
    /\ octants[<<FALSE, TRUE, FALSE>>].octant_ix[1]
    /\ ~octants[<<FALSE, TRUE, FALSE>>].octant_ix[2]
    /\ overall_mask[1] /\ overall_mask[2]


\* ----------------------------------------------------- claims on Registers
\* the comparison of a latch: new is strictly more extreme than old
StrictlyMoreExtreme(label, new, old) ==
    CASE label = "nbig" -> ValLt(new, old)
      [] label = "ntin" -> ValLt(old, new)
      [] label = "ptin" -> ValLt(new, old)
      [] label = "pbig" -> ValLt(old, new)

\* C11: once a Latch holds the result of a first tally, a further tally
\* changes its held value only to a value that strictly satisfies the latch's
\* comparison against the value held before; a tie, or an input with no
\* qualifying sample, leaves the held value unchanged.
C11_LatchHoldsExtremum ==
    [][(rgStatus = "tallied" /\ rgStatus' = "tallied") =>
          \A label \in LatchLabels, c \in ChannelIndices :
              LET old == rgRegisters[label][c].latched_value
                  new == rgRegisters'[label][c].latched_value
              IN  \/ new = old
                  \/ /\ old # None
                     /\ new # None
                     /\ StrictlyMoreExtreme(label, new[1], old[1])]_vars

\* the permutations of an index set, and an array rearranged by one
Rearrangements(D) == {p \in [D -> D] : \A i, j \in D : p[i] = p[j] => i = j}
Permuted(array, p) == [i \in DOMAIN array |-> array[p[i]]]

\* the samples of channel c the last tally examined
Examined(c) == ChannelOf(Select(rgImg, rgMask), c)

\* v is a negative (positive) sample that is not the clip value
NonClippingNegative(v) == v.sgn = -1 /\ v # NegClip
NonClippingPositive(v) == v.sgn = 1 /\ v # PosClip

\* C12: the value a "biggest strictly negative non-clipping value" latch
\* holds after a tally does not depend on the order of the samples: every
\* permutation of the same pixels (and of their mask) yields the value held.
C12_OrderIndependent ==
    rgStatus = "tallied" =>
        \A p \in Rearrangements(DOMAIN rgImg), c \in ChannelIndices :
            biggest_strictly_negative_non_clipping_value(
                ChannelOf(Select(Permuted(rgImg, p), Permuted(rgMask, p)), c))
              = rgRegisters.nbig[c].latched_value

\* two qualifying samples of channel 0 were examined, the first of them not
\* the most negative, and the latch holds the most negative
C12_Witness ==
    /\ rgStatus = "tallied"
    /\ Len(Examined(0)) >= 2
    /\ NonClippingNegative(Examined(0)[1])
    /\ NonClippingNegative(Examined(0)[2])
    /\ ValLt(Examined(0)[2], Examined(0)[1])
    /\ rgRegisters.nbig[0].latched_value = Some(Examined(0)[2])

\* what a latch of the given label must hold for the examined samples a:
\* nothing when no sample is non-clipping on its sign side, else the smallest
\* (nbig, ptin) or the largest (ntin, pbig) of those samples
HoldsExtremum(label, a, held) ==
    LET Q == IF label \in {"nbig", "ntin"}
             THEN {a[i] : i \in {j \in DOMAIN a : NonClippingNegative(a[j])}}
             ELSE {a[i] : i \in {j \in DOMAIN a : NonClippingPositive(a[j])}}
    IN  IF Q = {} THEN held = None
        ELSE /\ held # None
             /\ held[1] \in Q
             /\ \A w \in Q : IF label \in {"nbig", "ptin"}
                             THEN ~ValLt(w, held[1])
                             ELSE ~ValLt(held[1], w)

\* C13: after a tally each of the four latch functions has returned the
\* extremum of exactly the non-clipping samples on its sign side (biggest /
\* tiniest negative: minimum / maximum of the samples strictly between the
\* negative clip and 0; tiniest / biggest positive: minimum / maximum of the
\* samples strictly between 0 and the positive clip), never a zero, a clip
\* value or a sample of the other sign, and None when no sample qualifies.
C13_LatchFunctionsExtremum ==
    rgStatus = "tallied" =>
        \A label \in LatchLabels, c \in ChannelIndices :
            HoldsExtremum(label, Examined(c), rgRegisters[label][c].latched_value)

\* channel 0 was examined with two non-clipping negative samples, channel 1
\* with the negative clip and no non-clipping sample, channel 2 with the
\* positive clip and a non-clipping positive sample
C13_Witness ==
    /\ rgStatus = "tallied"
    /\ Len(Examined(0)) >= 2
    /\ \A i \in DOMAIN Examined(0) : NonClippingNegative(Examined(0)[i])
    /\ Examined(0)[1] # Examined(0)[2]
    /\ rgRegisters.nbig[0].latched_value # rgRegisters.ntin[0].latched_value
    /\ \E i \in DOMAIN Examined(1) : Examined(1)[i] = NegClip
    /\ rgRegisters.nbig[1].latched_value = None
    /\ \E i \in DOMAIN Examined(2) : Examined(2)[i] = PosClip
    /\ rgRegisters.pbig[2].latched_value # None
    /\ rgRegisters.pbig[2].latched_value # Some(PosClip)

\* the counters of a Registers value
CountersOf(r) == <<r.blk, r.nclp, r.zero, r.pclp>>

\* C14: after any sequence of Registers.tally calls every Counter holds the
\* count the last tally alone produces (the count a fresh Registers holds
\* after that one tally): counts are overwritten, not summed.
C14_CountersOverwrite ==
    rgStatus = "tallied" =>
        CountersOf(rgRegisters)
            = CountersOf(Registers_tally(NewRegisters, rgImg, rgMask))

\* a tally that counted black pixels followed one that had counted some
C14_Witness ==
    /\ rgStatus = "tallied"
    /\ rgHadBlack
    /\ rgRegisters.blk # None
    /\ rgRegisters.blk[1] >= 1

\* the selected pixels of the last tally whose three channels are all zero
SelectedBlack ==
    {i \in DOMAIN rgImg : rgMask[i] /\ \A c \in 1..3 : rgImg[i][c].sgn = 0}

\* C15: after a tally the black-pixel Counter equals the number of pixels
\* selected by the inclusion mask whose channels are all exactly zero (0 when
\* there is none, 1 when there is exactly one); a pixel with only some
\* channels zero is not counted.
C15_BlackPixelCount ==
    rgStatus = "tallied" => rgRegisters.blk = Some(Cardinality(SelectedBlack))

\* exactly one all-zero pixel among several selected pixels, one of which has
\* a zero channel only
C15_Witness ==
    /\ rgStatus = "tallied"
    /\ Cardinality(SelectedBlack) = 1
    /\ \E i \in DOMAIN rgImg :
          /\ rgMask[i]
          /\ i \notin SelectedBlack
          /\ \E c \in 1..3 : rgImg[i][c].sgn = 0
    /\ rgRegisters.blk = Some(1)

\* the sample a channel counter of the given label looks for
CountedSample(label) ==
    CASE label = "nclp" -> NegClip
      [] label = "zero" -> Zero
      [] label = "pclp" -> PosClip

\* samples put in place of a sample of the last image
ReplacementSamples == {NegClip, Zero, PosClip, Neg(0), Pos(0)}

\* C16: after a tally the Counter of channel c for each channel predicate
\* (negative clip, exactly zero, positive clip) equals the number of
\* mask-selected pixels whose channel c satisfies the predicate, and
\* replacing a sample of channel c changes no Counter of another channel.
C16_ChannelCounters ==
    rgStatus = "tallied" =>
        /\ \A label \in CounterLabels, c \in ChannelIndices :
              rgRegisters[label][c]
                = Some(Cardinality({i \in DOMAIN rgImg :
                          rgMask[i] /\ rgImg[i][c + 1] = CountedSample(label)}))
        /\ \A i \in DOMAIN rgImg, c \in ChannelIndices, v \in ReplacementSamples :
              LET changed == [rgImg EXCEPT ![i][c + 1] = v]
              IN  \A label \in CounterLabels, other \in ChannelIndices \ {c} :
                      Counter_tally_channel_values(None, label, other, changed, rgMask)
                        = rgRegisters[label][other]

\* channel 1 counted a zero and a negative clip, channel 2 a positive clip,
\* and channel 0 none of them
C16_Witness ==
    /\ rgStatus = "tallied"
    /\ rgRegisters.zero[1] = Some(1)
    /\ rgRegisters.zero[0] = Some(0)
    /\ rgRegisters.nclp[1] = Some(1)
    /\ rgRegisters.nclp[0] = Some(0)
    /\ rgRegisters.pclp[2] = Some(1)
    /\ rgRegisters.pclp[0] = Some(0)

\* ------------------------------------------------------- claims on Octant
\* the pixels of the file that octant k selected, before reflection
RawInOctant(k) == Select(file.pixels, octants[k].octant_ix)

\* C17: Octant.tally never modifies the source pixel array: after
\* FrameC18n.tally every sample of the array equals the sample read from the
\* file, and every Octant's Register Set holds the tally of the original,
\* unreflected pixels under the octant's membership mask.
C17_SourceArrayUntouched ==
    fcStatus = "tallied" =>
        /\ img_array = file.pixels
        /\ \A k \in DOMAIN octants :
              /\ octants[k].octant_ix = ix_for_octant(k, file.pixels)
              /\ octants[k].registers
                   = Registers_tally(NewRegisters, file.pixels,
                                     octants[k].octant_ix)

\* the octant of red and blue negative holds a pixel and its latches of red
\* and blue hold negative values
C17_Witness ==
    /\ fcStatus = "tallied"
    /\ octants[<<TRUE, FALSE, TRUE>>].samples_in_octant >= 1
    /\ octants[<<TRUE, FALSE, TRUE>>].registers.nbig[0].latched_value # None
    /\ octants[<<TRUE, FALSE, TRUE>>].registers.nbig[0].latched_value[1].sgn = -1
    /\ octants[<<TRUE, FALSE, TRUE>>].registers.ntin[2].latched_value # None
    /\ octants[<<TRUE, FALSE, TRUE>>].registers.ntin[2].latched_value[1].sgn = -1
    /\ octants[<<TRUE, FALSE, TRUE>>].registers.pbig[1].latched_value # None

\* C18: for every pixel an Octant's membership mask selects, the reflected
\* triple that is binned has on each channel -v where the key entry is True
\* and v where it is False, so every reflected channel is non-negative and
\* has the magnitude of the raw channel.
C18_ReflectionToFirstOctant ==
    fcStatus = "tallied" =>
        \A k \in DOMAIN octants :
            /\ Len(octants[k].img_in_octant) = Len(RawInOctant(k))
            /\ \A i \in DOMAIN RawInOctant(k), c \in 1..3 :
                  LET raw == RawInOctant(k)[i][c]
                      reflected == octants[k].img_in_octant[i][c]
                  IN  /\ reflected.sgn = IF k[c] THEN -raw.sgn ELSE raw.sgn
                      /\ reflected.sgn >= 0
                      /\ reflected.lg = raw.lg

\* the pixel of about (-2, 3, -5) was binned as about (2, 3, 5)
C18_Witness ==
    /\ fcStatus = "tallied"
    /\ \E i \in DOMAIN RawInOctant(<<TRUE, FALSE, TRUE>>) :
          /\ RawInOctant(<<TRUE, FALSE, TRUE>>)[i]
               = <<Neg(LogRes \div 3), Pos(LogRes \div 2), Neg((2 * LogRes) \div 3)>>
          /\ octants[<<TRUE, FALSE, TRUE>>].img_in_octant[i]
               = <<Pos(LogRes \div 3), Pos(LogRes \div 2), Pos((2 * LogRes) \div 3)>>

\* the total of the cells of a histogram
RECURSIVE SumOver(_, _)
SumOver(counts, cells) ==
    IF cells = {} THEN 0
    ELSE LET cell == CHOOSE x \in cells : TRUE
         IN  counts[cell] + SumOver(counts, cells \ {cell})

SumCells(hist3d) == SumOver(hist3d.counts, DOMAIN hist3d.counts)

\* v lies in (10^min_exponent, 10^max_exponent]; the second edge is
\* 10^min_exponent and the last but one 10^max_exponent
InConfiguredRange(v, edge) ==
    ValLt(edge[2], v) /\ ~ValLt(edge[Len(edge) - 1], v)

\* C19: after Octant.tally a pixel of the octant contributes to the cubelet
\* histogram if and only if its three reflected channels fall inside
\* (10^min_exponent, 10^max_exponent], so the total of the cubelet cells
\* equals the number of octant pixels with three in-range channels.
C19_CubeletsOnlyInRange ==
    fcStatus = "tallied" =>
        \A k \in DOMAIN octants :
            SumCells(octants[k].hist3d)
              = Cardinality({i \in DOMAIN octants[k].img_in_octant :
                    \A c \in 1..3 :
                        InConfiguredRange(octants[k].img_in_octant[i][c],
                                          octants[k].edge)})

\* the LogBins instance has the configuration of the frame's octants
SameConfiguration ==
    /\ fcStatus = "tallied"
    /\ lbStatus = "live"
    /\ len(bins) = fc_num_bins
    /\ \A k \in DOMAIN octants :
          /\ octants[k].edge[2] = TenTo(log_min)
          /\ octants[k].edge[Len(octants[k].edge) - 1] = TenTo(log_max)

\* C20: Octant binning agrees with LogBins: every cubelet cell an Octant has
\* incremented is (bin0, bin1, bin2) for a pixel of the octant, where bin_c is
\* the index LogBins.add_entry returns for the reflected channel c under the
\* same (min_exponent, max_exponent, num_bins) configuration.
C20_OctantAgreesWithLogBins ==
    SameConfiguration =>
        \A k \in DOMAIN octants :
            \A cell \in DOMAIN octants[k].hist3d.counts :
                \E i \in DOMAIN octants[k].img_in_octant :
                    \A c \in 1..3 :
                        AddEntryOutcome(Self, octants[k].img_in_octant[i][c])
                          = [kind |-> "bin", ix |-> cell[c]]

\* C21: an Octant's cubelet histogram always has shape num_bins x num_bins x
\* num_bins, after construction and after any tally.
C21_HistogramShape ==
    fcStatus \in {"constructed", "tallied"} =>
        \A k \in DOMAIN octants :
            octants[k].hist3d.shape
              = <<fc_num_bins, fc_num_bins, fc_num_bins>>

C30_NonPositiveRejected ==
    (lastOp = "add_entry" /\ lastValue.sgn <= 0) =>
        /\ lastErr = "ValueError"
        /\ lastRet = -1
        /\ num_overflowed = prev.over
        /\ num_underflowed = prev.under
        /\ bins = prev.bins

\* zero was handed to an instance that had already counted an entry in a bin
C30_Witness ==
    /\ lastOp = "add_entry"
    /\ lastValue = Zero
    /\ lastErr = "ValueError"
    /\ SumBins(bins) = 1
    /\ positiveCalls = 1

\* C22: an Octant whose membership mask selects no pixel is tallied and
\* summarized without error: after the tally all its counters are 0 and no
\* latch holds a value, and the summary FrameC18n.summarize returns has no
\* section for that octant.
C22_EmptyOctantOmitted ==
    fcStatus = "tallied" =>
        \A k \in DOMAIN octants :
            octants[k].samples_in_octant = 0 =>
                /\ octants[k].registers.blk = Some(0)
                /\ \A label \in CounterLabels, c \in ChannelIndices :
                      octants[k].registers[label][c] = Some(0)
                /\ \A label \in LatchLabels, c \in ChannelIndices :
                      /\ octants[k].registers[label][c].latched_value = None
                      /\ octants[k].registers[label][c].values_examined_count = 0
                /\ summary # None =>
                      \A i \in DOMAIN summary[1].sections :
                          summary[1].sections[i].octant # k

\* a frame whose two pixels lie in two octants was summarized: the summary
\* has the sections of these two and of no other octant
C22_Witness ==
    /\ fcStatus = "tallied"
    /\ summary # None
    /\ Len(summary[1].sections) = 2
    /\ Len(summary[1].sections[1].lines) >= 1
    /\ octants[<<TRUE, TRUE, TRUE>>].samples_in_octant = 0
    /\ octants[<<FALSE, FALSE, FALSE>>].samples_in_octant = 1

\* ------------------------------------------- claims on _contiguous_ranges
RECURSIVE Flattened(_, _)
Flattened(rs, j) ==
    IF j > Len(rs) THEN <<>> ELSE list(rs[j]) \o Flattened(rs, j + 1)

StrictlyIncreasing(numbers) ==
    \A i \in 1..(Len(numbers) - 1) : numbers[i] < numbers[i + 1]

Consecutive(numbers) ==
    /\ Len(numbers) >= 1
    /\ \A i \in 1..(Len(numbers) - 1) : numbers[i + 1] = numbers[i] + 1

\* C26: for a strictly increasing list of non-negative frame numbers the
\* ranges _contiguous_ranges returns, concatenated in order, are the input
\* list; every range covers consecutive integers and is not empty, the ranges
\* are pairwise disjoint, the end of a range is never the start of the next,
\* and a fully consecutive input yields the single range equal to it.
C26_ContiguousRanges ==
    (ranges # None /\ StrictlyIncreasing(frame_numbers)) =>
        LET rs == ranges[1]
        IN  /\ Flattened(rs, 1) = frame_numbers
            /\ \A j \in DOMAIN rs :
                  /\ rs[j].start < rs[j].stop
                  /\ Consecutive(list(rs[j]))
            /\ \A j \in DOMAIN rs, k \in DOMAIN rs :
                  j # k => Range(list(rs[j])) \cap Range(list(rs[k])) = {}
            /\ \A j \in 1..(Len(rs) - 1) : rs[j].stop # rs[j + 1].start
            /\ Consecutive(frame_numbers) =>
                  rs = <<range(frame_numbers[1],
                               frame_numbers[Len(frame_numbers)] + 1)>>

\* the frames 0, 1 and 3 gave range(0, 2) and range(3, 4)
C26_Witness ==
    /\ frame_numbers = <<0, 1, 3>>
    /\ ranges = Some(<<range(0, 2), range(3, 4)>>)

\* ------------------------------------------- claims on the order of tallies
\* C23: the result of FrameC18n.tally does not depend on the order of its
\* tallies: whatever the order in which the overall Register Set and the
\* eight Octants were tallied on the pixel array, the overall registers and
\* every octant's samples_in_octant, cubelet histogram and registers are
\* those of the tally in the order of the code, and the pixel array is as it
\* was read.
C23_OrderIndependent ==
    (fcStatus = "tallied" /\ last_tally # None) =>
        LET inOrder == TallyOctants(1, [k \in Range(keys) |->
                           NewOctant(k, -ExpSpan, ExpSpan, fc_num_bins)],
                           file.pixels)
        IN  /\ img_array = file.pixels
            /\ overall_registers
                 = Registers_tally(NewRegisters, file.pixels,
                                   np_full_True(file.pixels))
            /\ \A k \in Range(keys) :
                  /\ octants[k].samples_in_octant
                       = inOrder.octants[k].samples_in_octant
                  /\ octants[k].hist3d = inOrder.octants[k].hist3d
                  /\ octants[k].registers = inOrder.octants[k].registers

\* the overall registers were tallied last, after the eight octants, on a
\* frame with pixels in two octants
C23_Witness ==
    /\ fcStatus = "tallied"
    /\ last_tally = Some(Overall)
    /\ overall_registers.blk = Some(0)
    /\ octants[<<TRUE, FALSE, TRUE>>].samples_in_octant = 1
    /\ octants[<<FALSE, TRUE, FALSE>>].samples_in_octant = 1

\* ------------------------------------------------- claims on SequenceC18n
\* the (key, value) pairs one FrameC18n.add_to_columns call writes for a
\* characterized frame, in the order of the call
RECURSIVE OctantPairs(_, _)
OctantPairs(frame, i) ==
    IF i > Len(keys) THEN <<>>
    ELSE Registers_keys_and_values(frame.registers[keys[i]],
                                   Octant_label(keys[i]), frame.channel_names)
         \o OctantPairs(frame, i + 1)

FramePairs(frame) ==
    Registers_keys_and_values(frame.overall_registers, "overall",
                              frame.channel_names)
    \o OctantPairs(frame, 1)

\* C25: all keys that one FrameC18n.add_to_columns call writes are pairwise
\* distinct: no two counters or latches of the overall Register Set and of
\* the Octants share a key, so after the first frame every column holds one
\* value; and the 8 octant keys yield 8 distinct octant labels.
C25_KeysDistinct ==
    /\ Cardinality({Octant_label(k) : k \in Range(keys)}) = 8
    /\ \A f \in DOMAIN frames :
          LET pairs == FramePairs(frames[f])
          IN  \A i \in DOMAIN pairs, j \in DOMAIN pairs :
                  i # j => pairs[i][1] # pairs[j][1]
    /\ Len(frames) = 1 =>
          /\ Cardinality(DOMAIN columns) = Len(FramePairs(frames[1]))
          /\ \A key \in DOMAIN columns : Len(columns[key]) = 1

\* one frame was added: the columns of the overall registers and of the
\* octants are there, the count of examined values beside the latched value
C25_Witness ==
    /\ Len(frames) = 1
    /\ Cardinality(DOMAIN columns) = 9 * 34
    /\ {"overall_blk", "overall_zero_G", "oct_r+g+b+_blk", "oct_r-g+b-_nbig_R",
        "oct_r-g+b-_nbig_R_examined", "oct_r-g-b-_pbig_B"} \subseteq DOMAIN columns

\* the frames characterized so far have the same channel names
SameChannelNames ==
    \A i \in DOMAIN frames, j \in DOMAIN frames :
        frames[i].channel_names = frames[j].channel_names

\* C28: starting from an empty columns mapping, after add_to_columns has
\* been called for k tallied frames with the same channel names, every
\* column holds exactly k values, the i-th being that of the i-th frame, and
\* the set of column keys is the same after every frame.
C28_ColumnsRectangular ==
    SameChannelNames =>
        /\ \A key \in DOMAIN columns : Len(columns[key]) = Len(frames)
        /\ \A i \in DOMAIN frames :
              LET pairs == FramePairs(frames[i])
              IN  /\ DOMAIN columns = {pairs[j][1] : j \in DOMAIN pairs}
                  /\ \A j \in DOMAIN pairs :
                        columns[pairs[j][1]][i] = pairs[j][2]

\* two frames with the same channel names and different pixels were added,
\* in a call that follows one which made a table of one row
C28_Witness ==
    /\ sqStatus = "characterizing"
    /\ Len(frames) = 2
    /\ SameChannelNames
    /\ dataframe # None
    /\ dataframe[1].index = 1
    /\ columns["overall_blk"] = <<Some(1), Some(0)>>

\* C29: SequenceC18n.save raises the 'sequence_c18n is empty' error exactly
\* when the accumulated table holds no frame rows and empty_is_error is
\* true; whenever at least one frame has been characterized, save writes the
\* table and raises nothing.
C29_SaveRaisesOnlyWhenEmpty ==
    (saved # "" /\ dataframe # None) =>
        /\ saved = "RuntimeError" <=> (dataframe[1].index = 0 /\ empty_is_error)
        /\ dataframe[1].index >= 1 => saved = "written"

\* an add_entry call on a LogBins with num_bins >= 1 and log_min < log_max
\* whose value is neither overflow nor underflow
BinnedCall ==
    /\ lastOp = "add_entry"
    /\ len(bins) >= 1
    /\ log_min < log_max
    /\ lastValue.sgn > 0
    /\ ~IsOverflow(Self, log10(lastValue))
    /\ ~IsUnderflow(Self, log10(lastValue))

\* the call returned an index of the array and incremented that bin alone
ReturnedIndexCounted ==
    /\ lastErr = ""
    /\ 0 <= lastRet /\ lastRet < len(bins)
    /\ bins = IncrementBin(prev.bins, lastRet)
    /\ num_overflowed = prev.over
    /\ num_underflowed = prev.under

\* C27 as stated: for a LogBins with num_bins >= 1 and log_min < log_max,
\* every add_entry that is neither overflow nor underflow returns an index
\* ix with 0 <= ix < num_bins and increments exactly that bin, and the branch
\* of ix_for_value that clamps an index equal to num_bins is never reached
\* from add_entry.
C27_ClampNeverReached ==
    BinnedCall =>
        /\ ReturnedIndexCounted
        /\ ~ClampTaken(Self, log10(lastValue))

\* C27, amended: for a LogBins with num_bins >= 1 and log_min < log_max,
\* every add_entry that is neither overflow nor underflow returns an index
\* ix with 0 <= ix < num_bins and increments exactly that bin; the branch of
\* ix_for_value that clamps an index equal to num_bins is reached from
\* add_entry only for a value just above 10^log_min for which rounding makes
\* lerp return num_bins, and the index is then num_bins - 1.
C27_IndexInRange ==
    BinnedCall =>
        /\ ReturnedIndexCounted
        /\ ClampTaken(Self, log10(lastValue)) =>
              /\ lastValue = NextAbove(log_min * LogRes)
              /\ lastRet = len(bins) - 1

\* the value next above 10^log_min was added to an instance of two or more
\* bins: lerp gave num_bins, the clamp made it the last bin
C27_Witness ==
    /\ BinnedCall
    /\ len(bins) >= 2
    /\ lastValue = NextAbove(log_min * LogRes)
    /\ ClampTaken(Self, log10(lastValue))
    /\ lastRet = len(bins) - 1
    /\ bins[len(bins) - 1] = 1

=============================================================================
